---- MODULE Spec2Model ----
(***************************************************************************)
(* SADP core (src/src/core/sadp_core.py) and its submission boundary       *)
(* (src/src/api/api_server.py) as a state machine.                         *)
(*                                                                         *)
(* A session is one run of SADPCore.initiate_collaboration.  It is a       *)
(* coroutine: it can only be suspended at a worker invocation, so every    *)
(* action below is one atomic segment of the coroutine, from one           *)
(* suspension point to the next.  The workers behind cursor_ai and         *)
(* figma_ai are opaque capability providers: what they return (or that     *)
(* they raise) is an input of the action that handles their return.  The   *)
(* result of claude is built inline by execute_agent_task and is fixed;    *)
(* its invocation is still a step of its own, so the model allows other    *)
(* sessions to run while it is pending (more interleavings than the event  *)
(* loop produces, never fewer).                                            *)
(***************************************************************************)
EXTENDS Integers, Sequences, FiniteSets, TLC

\* ------------------------------------------------------------------ bounds
MaxRequests == 2      \* accepted submissions per behaviour
MaxTime     == 1      \* the clock runs over 0..MaxTime (seconds)
MaxPlanLen  == 4      \* adaptation may grow an autonomous plan up to this
MaxParts    == 4      \* longest participant list handed to the planner
MaxBatch    == 2      \* longest batch handed directly to resolve_conflicts
MaxCalls    == 2      \* direct calls of resolve_conflicts per behaviour
MaxRecords  == 3      \* sessions recorded directly in the metrics
MaxHist     == 6      \* longest conflict history made by hand
MaxSkills   == 2      \* longest list of required skills
MaxSkillLen == 2      \* longest required skill, in characters

\* ------------------------------------------------------- program constants
interaction_rounds == 3
ConflictThreshold  == 20
ClaudeQuality      == 95

Agents == {"claude", "cursor_ai", "figma_ai"}
Modes  == {"sequential", "parallel", "interactive", "autonomous"}

None == "None"

\* ---------------------------------------------------------------- inputs
\* participant lists a request may carry ("ghost" is not registered)
ParticipantLists ==
  { <<"claude", "figma_ai", "cursor_ai">>,
    <<"cursor_ai", "ghost", "claude">>,
    <<"claude">> }

RequestModes == Modes \cup {"bogus"}

\* what an opaque worker call can do: raise, or return a dict that may carry
\* a quality score and the adaptation flags
NoOut == [raises |-> FALSE, hasScore |-> FALSE, score |-> 0,
          adapt |-> FALSE, addDesign |-> FALSE, stepId |-> FALSE]

OutRaise     == [NoOut EXCEPT !.raises = TRUE]
OutScore(q)  == [NoOut EXCEPT !.hasScore = TRUE, !.score = q]
OutAdapt     == [OutScore(40) EXCEPT !.adapt = TRUE]
OutAddDesign == [OutScore(40) EXCEPT !.adapt = TRUE, !.addDesign = TRUE]
OutAddDesignId == [OutAddDesign EXCEPT !.stepId = TRUE]

WorkerOuts(mode, agent, planLen) ==
  IF agent = "claude" THEN {NoOut}
  ELSE IF mode = "autonomous"
       THEN {OutRaise, OutScore(40), OutAdapt}
            \cup (IF planLen < MaxPlanLen THEN {OutAddDesign, OutAddDesignId} ELSE {})
  ELSE IF mode = "interactive"
       THEN {OutRaise, OutScore(40)}
  ELSE {OutRaise, NoOut, OutScore(40), OutScore(92)}

\* ------------------------------------------------------- dict helpers
\* a Python dict is a sequence of [key, val] entries in insertion order
Keys(d) == [i \in 1..Len(d) |-> d[i].key]

HasKey(d, k) == \E i \in 1..Len(d) : d[i].key = k

Get(d, k) == d[CHOOSE i \in 1..Len(d) : d[i].key = k].val

Put(d, k, v) ==
  IF HasKey(d, k)
  THEN [i \in 1..Len(d) |-> IF d[i].key = k THEN [key |-> k, val |-> v] ELSE d[i]]
  ELSE Append(d, [key |-> k, val |-> v])

Range(s) == {s[i] : i \in 1..Len(s)}

Abs(x) == IF x < 0 THEN -x ELSE x

RECURSIVE Gcd(_, _)
Gcd(a, b) == IF b = 0 THEN a ELSE Gcd(b, a % b)

\* ------------------------------------------------------- the core
\* initiate_collaboration, lines 141-147: only registered names get a
\* preparation record; the others are logged and skipped
\* mutant: the membership test of line 143 dropped
RECURSIVE PrepareParticipants_nofilter(_)
PrepareParticipants_nofilter(names) ==
  IF names = <<>> THEN <<>>
  ELSE LET rest == PrepareParticipants_nofilter(SubSeq(names, 1, Len(names) - 1))
           n    == names[Len(names)]
       IN IF n \notin Range(rest) THEN Append(rest, n) ELSE rest

RECURSIVE PrepareParticipants(_)
PrepareParticipants(names) ==
  IF names = <<>> THEN <<>>
  ELSE LET rest == PrepareParticipants(SubSeq(names, 1, Len(names) - 1))
           n    == names[Len(names)]
       IN IF n \in Agents /\ n \notin Range(rest) THEN Append(rest, n) ELSE rest

\* mutant: implementation placed before design
determine_execution_order_swapped(participants) ==
  (IF "claude" \in Range(participants) THEN <<"claude">> ELSE <<>>)
  \o (IF "cursor_ai" \in Range(participants) THEN <<"cursor_ai">> ELSE <<>>)
  \o (IF "figma_ai" \in Range(participants) THEN <<"figma_ai">> ELSE <<>>)

determine_execution_order(participants) ==
  (IF "claude" \in Range(participants) THEN <<"claude">> ELSE <<>>)
  \o (IF "figma_ai" \in Range(participants) THEN <<"figma_ai">> ELSE <<>>)
  \o (IF "cursor_ai" \in Range(participants) THEN <<"cursor_ai">> ELSE <<>>)

\* mutant: the except branch reports the failure as a success
execute_agent_task_swallow(agent, out) ==
  [agent |-> agent, status |-> "success",
   type |-> IF agent = "claude" THEN "strategic_analysis" ELSE "task",
   hasScore |-> IF agent = "claude" THEN TRUE ELSE out.hasScore,
   score |-> IF agent = "claude" THEN ClaudeQuality ELSE out.score,
   error |-> "", adapt |-> out.adapt, addDesign |-> out.addDesign,
   stepId |-> out.stepId, hasRes |-> FALSE, res |-> <<>>]

\* the except branch giving the failed invocation a quality_score of 0
execute_agent_task_scored(agent, out) ==
  IF agent = "claude"
  THEN [agent |-> agent, status |-> "success", type |-> "strategic_analysis",
        hasScore |-> TRUE, score |-> ClaudeQuality, error |-> "",
        adapt |-> FALSE, addDesign |-> FALSE, stepId |-> FALSE,
        hasRes |-> FALSE, res |-> <<>>]
  ELSE IF out.raises
  THEN [agent |-> agent, status |-> "error", type |-> "task",
        hasScore |-> TRUE, score |-> 0, error |-> "worker failed",
        adapt |-> FALSE, addDesign |-> FALSE, stepId |-> FALSE,
        hasRes |-> FALSE, res |-> <<>>]
  ELSE [agent |-> agent, status |-> "success", type |-> "task",
        hasScore |-> out.hasScore, score |-> out.score, error |-> "",
        adapt |-> out.adapt, addDesign |-> out.addDesign, stepId |-> out.stepId,
        hasRes |-> FALSE, res |-> <<>>]

\* execute_agent_task: the result of one worker invocation
execute_agent_task(agent, out) ==
  IF agent = "claude"
  THEN [agent |-> agent, status |-> "success", type |-> "strategic_analysis",
        hasScore |-> TRUE, score |-> ClaudeQuality, error |-> "",
        adapt |-> FALSE, addDesign |-> FALSE, stepId |-> FALSE,
        hasRes |-> FALSE, res |-> <<>>]
  ELSE IF out.raises
  THEN [agent |-> agent, status |-> "error", type |-> "task",
        hasScore |-> FALSE, score |-> 0, error |-> "worker failed",
        adapt |-> FALSE, addDesign |-> FALSE, stepId |-> FALSE,
        hasRes |-> FALSE, res |-> <<>>]
  ELSE [agent |-> agent, status |-> "success", type |-> "task",
        hasScore |-> out.hasScore, score |-> out.score, error |-> "",
        adapt |-> out.adapt, addDesign |-> out.addDesign, stepId |-> out.stepId,
        hasRes |-> FALSE, res |-> <<>>]

\* "quality_score" in result
HasScore(v) == "hasScore" \in DOMAIN v /\ v.hasScore

\* mutants of the rule: the boundary included; the difference not made absolute
QualityRule_ge(a, b) ==
  HasScore(a) /\ HasScore(b) /\ Abs(a.score - b.score) >= ConflictThreshold

QualityRule_noabs(a, b) ==
  HasScore(a) /\ HasScore(b) /\ a.score - b.score > ConflictThreshold

\* the rule of detect_conflicts for one pair
QualityRule(a, b) ==
  HasScore(a) /\ HasScore(b) /\ Abs(a.score - b.score) > ConflictThreshold

NewConflict(uid, agent_name, other_agent) ==
  [id |-> uid, type |-> "quality", agents |-> <<agent_name, other_agent>>,
   severity |-> "medium"]

\* detect_conflicts(agent_name, agent_result, all_results); uid is the number
\* of conflict ids handed out so far (uuid4 never repeats)
RECURSIVE detect_conflicts(_, _, _, _)
detect_conflicts(agent_name, agent_result, all_results, uid) ==
  IF all_results = <<>> THEN <<>>
  ELSE LET n     == Len(all_results)
           front == detect_conflicts(agent_name, agent_result,
                                     SubSeq(all_results, 1, n - 1), uid)
           e     == all_results[n]
       IN IF e.key # agent_name /\ QualityRule(agent_result, e.val)
          THEN Append(front, NewConflict(uid + Len(front) + 1, agent_name, e.key))
          ELSE front

\* detect_all_conflicts: every pair i < j of the keys, in the loops' order
RECURSIVE DetectFrom(_, _, _, _)
DetectFrom(results, i, j, uid) ==
  IF i > Len(results) THEN <<>>
  ELSE IF j > Len(results) THEN DetectFrom(results, i + 1, i + 2, uid)
  ELSE LET pair == detect_conflicts(results[i].key, results[i].val,
                                    <<results[j]>>, uid)
       IN pair \o DetectFrom(results, i, j + 1, uid + Len(pair))

\* the detector comparing only the first worker with the others
detect_all_conflicts_first(results, uid) ==
  IF results = <<>> THEN <<>>
  ELSE detect_conflicts(results[1].key, results[1].val, results, uid)

detect_all_conflicts(results, uid) == DetectFrom(results, 1, 2, uid)

\* the values of the enum ConflictType
ConflictTypes == {"resource", "priority", "dependency", "timeline", "quality"}

\* the weights of decision_matrix, in hundredths
decision_matrix == [claude |-> 40, cursor_ai |-> 35, figma_ai |-> 25]

\* one element of resolution_actions: {"action": a, k: v}
ActionOf(a, k, v) == [action |-> a, arg |-> k, value |-> v]

\* the handlers of setup_conflict_resolution
QualityActions ==
  << ActionOf("set_quality_standard", "value", 90),
     ActionOf("require_peer_review", "reviewers", <<"claude">>),
     ActionOf("implement_quality_checks", "automated", TRUE) >>

\* the quality handler reporting that it did not resolve the conflict
resolve_quality_conflict_fail(conflict) ==
  [conflict_id |-> conflict.id, conflict_type |-> "quality",
   affected_agents |-> conflict.agents,
   resolution_strategy |-> "quality_standardization",
   resolution_actions |-> QualityActions, success |-> FALSE]

resolve_quality_conflict(conflict) ==
  [conflict_id |-> conflict.id, conflict_type |-> "quality",
   affected_agents |-> conflict.agents,
   resolution_strategy |-> "quality_standardization",
   resolution_actions |-> QualityActions, success |-> TRUE]

resolve_resource_conflict(conflict) ==
  [conflict_id |-> conflict.id, conflict_type |-> "resource",
   affected_agents |-> conflict.agents,
   resolution_strategy |-> "resource_allocation",
   resolution_actions |->
     << ActionOf("allocate_resources", "method", "round_robin") >>,
   success |-> TRUE]

resolve_priority_conflict(conflict) ==
  [conflict_id |-> conflict.id, conflict_type |-> "priority",
   affected_agents |-> conflict.agents,
   resolution_strategy |-> "priority_voting",
   resolution_actions |->
     << ActionOf("democratic_vote", "weight_system", decision_matrix) >>,
   success |-> TRUE]

resolve_dependency_conflict(conflict) ==
  [conflict_id |-> conflict.id, conflict_type |-> "dependency",
   affected_agents |-> conflict.agents,
   resolution_strategy |-> "dependency_ordering",
   resolution_actions |->
     << ActionOf("reorder_tasks", "method", "topological_sort") >>,
   success |-> TRUE]

\* the timeline handler answering with the dependency handler's type
resolve_timeline_conflict_dep(conflict) ==
  [conflict_id |-> conflict.id, conflict_type |-> "dependency",
   affected_agents |-> conflict.agents,
   resolution_strategy |-> "timeline_adjustment",
   resolution_actions |-> << ActionOf("extend_deadline", "buffer", "20%") >>,
   success |-> TRUE]

resolve_timeline_conflict(conflict) ==
  [conflict_id |-> conflict.id, conflict_type |-> "timeline",
   affected_agents |-> conflict.agents,
   resolution_strategy |-> "timeline_adjustment",
   resolution_actions |-> << ActionOf("extend_deadline", "buffer", "20%") >>,
   success |-> TRUE]

\* self.conflict_resolvers[ConflictType(conflict["type"])] applied to conflict
conflict_resolvers(conflict) ==
  CASE conflict.type = "resource"   -> resolve_resource_conflict(conflict)
    [] conflict.type = "priority"   -> resolve_priority_conflict(conflict)
    [] conflict.type = "dependency" -> resolve_dependency_conflict(conflict)
    [] conflict.type = "quality"    -> resolve_quality_conflict(conflict)
    [] conflict.type = "timeline"   -> resolve_timeline_conflict(conflict)

\* how many conflicts the loop of resolve_conflicts gets through:
\* ConflictType(conflict["type"]) raises ValueError on the first type that is
\* no value of the enum, and nothing catches it inside the loop
RECURSIVE ResolvedCount(_)
ResolvedCount(conflicts) ==
  IF conflicts = <<>> \/ Head(conflicts).type \notin ConflictTypes
  THEN 0
  ELSE 1 + ResolvedCount(Tail(conflicts))

ResolveRaises(conflicts) == ResolvedCount(conflicts) < Len(conflicts)

\* the loop appending every resolution to the history twice
resolve_conflicts_twice(conflicts) ==
  LET once == [i \in 1..ResolvedCount(conflicts) |->
                 conflict_resolvers(conflicts[i])]
  IN once \o once

\* resolve_conflicts: the resolutions the loop has built and appended to the
\* history, one per conflict in order, up to the first conflict that raises
resolve_conflicts(conflicts) ==
  [i \in 1..ResolvedCount(conflicts) |-> conflict_resolvers(conflicts[i])]

\* self.conflict_history.append(resolution), for the resolutions of one call
AppendHistory_front(history, resolutions) == resolutions \o history

AppendHistory(history, resolutions) == history \o resolutions

\* apply_conflict_resolution on one worker's result ("agent" in results)
ApplySingle(result, resolutions) ==
  [result EXCEPT !.hasRes = TRUE, !.res = resolutions]

\* apply_conflict_resolution on a mapping worker -> result
ApplyMulti(results, resolutions) ==
  [i \in 1..Len(results) |->
     [key |-> results[i].key, val |-> ApplySingle(results[i].val, resolutions)]]

summarize_result(result) ==
  IF result.status = "error"
  THEN [error |-> TRUE, agent |-> result.agent, text |-> result.error]
  ELSE [error |-> FALSE, agent |-> result.agent, text |-> result.type]

TimelineEntry(agent_name, result) ==
  [agent |-> agent_name, action |-> "task_completed",
   result_summary |-> summarize_result(result)]


\* generate_agent_feedback: built from the peers already in round_results
FeedbackKey(a) ==
  CASE a = "claude"    -> "claude_feedback"
    [] a = "cursor_ai" -> "cursor_ai_feedback"
    [] a = "figma_ai"  -> "figma_ai_feedback"

FeedbackKeys == {FeedbackKey(a) : a \in Agents}

\* the loop without the test other_agent != agent_name
generate_agent_feedback_self(agent_name, round_results) ==
  LET peers == SelectSeq(round_results, LAMBDA e : e.key \notin FeedbackKeys)
      good  == SelectSeq(peers, LAMBDA e : e.val.status = "success")
      bad   == SelectSeq(peers, LAMBDA e : e.val.status # "success")
  IN [from_agent |-> agent_name, suggestions |-> <<>>,
      appreciations |-> Keys(good), concerns |-> Keys(bad)]

generate_agent_feedback(agent_name, round_results) ==
  LET peers == SelectSeq(round_results,
                 LAMBDA e : e.key # agent_name /\ e.key \notin FeedbackKeys)
      good  == SelectSeq(peers, LAMBDA e : e.val.status = "success")
      bad   == SelectSeq(peers, LAMBDA e : e.val.status # "success")
  IN [from_agent |-> agent_name, suggestions |-> <<>>,
      appreciations |-> Keys(good), concerns |-> Keys(bad)]

\* generate_autonomous_plan
StepName ==
  << "step_1", "step_2", "step_3", "adaptive_step_4", "adaptive_step_5",
     "adaptive_step_6", "adaptive_step_7", "adaptive_step_8" >>

\* the plan listing the implementation step before the design step
generate_autonomous_plan_swapped ==
  << [id |-> "step_1", agent |-> "claude", action |-> "strategic_analysis",
      dependencies |-> <<>>],
     [id |-> "step_3", agent |-> "cursor_ai", action |-> "code_implementation",
      dependencies |-> <<"step_1", "step_2">>],
     [id |-> "step_2", agent |-> "figma_ai", action |-> "ui_design",
      dependencies |-> <<"step_1">>] >>

generate_autonomous_plan ==
  << [id |-> "step_1", agent |-> "claude", action |-> "strategic_analysis",
      dependencies |-> <<>>],
     [id |-> "step_2", agent |-> "figma_ai", action |-> "ui_design",
      dependencies |-> <<"step_1">>],
     [id |-> "step_3", agent |-> "cursor_ai", action |-> "code_implementation",
      dependencies |-> <<"step_1", "step_2">>] >>

\* adapt_autonomous_plan(plan, step_result); cur is the step being executed,
\* which a worker that sets "step_id" echoes from its context
adapt_autonomous_plan(plan, step_result, cur) ==
  IF step_result.addDesign
  THEN Append(plan,
         [id |-> StepName[Len(plan) + 1], agent |-> "figma_ai",
          action |-> "additional_design",
          dependencies |-> << IF step_result.stepId THEN cur ELSE None >>])
  ELSE plan

\* average_completion_time is kept as an exact fraction [num, den]
Norm(n, d) == LET g == Gcd(n, d) IN [num |-> n \div g, den |-> d \div g]

\* the update counting every registered worker as used
update_performance_metrics_allused(m, session) ==
  LET total == m.total_collaborations + 1
      succ  == IF session.status = "completed"
               THEN m.successful_collaborations + 1
               ELSE m.successful_collaborations
      avg   == m.average_completion_time
      navg  == Norm(avg.num * (succ - 1) + session.duration * avg.den,
                    avg.den * succ)
      util  == [a \in Agents |->
                  (IF a \in DOMAIN m.agent_utilization
                   THEN m.agent_utilization[a] ELSE 0) + 1]
  IN [m EXCEPT !.total_collaborations = total,
               !.successful_collaborations = succ,
               !.average_completion_time = navg,
               !.agent_utilization = util]

\* the update averaging the old average with the new duration
update_performance_metrics_halve(m, session) ==
  LET total == m.total_collaborations + 1
      succ  == IF session.status = "completed"
               THEN m.successful_collaborations + 1
               ELSE m.successful_collaborations
      avg   == m.average_completion_time
      navg  == IF succ = 1 THEN Norm(session.duration, 1)
               ELSE Norm(avg.num + session.duration * avg.den, avg.den * 2)
      util  == [a \in DOMAIN m.agent_utilization \cup Range(session.participants) |->
                  (IF a \in DOMAIN m.agent_utilization
                   THEN m.agent_utilization[a] ELSE 0)
                  + (IF a \in Range(session.participants) THEN 1 ELSE 0)]
  IN [m EXCEPT !.total_collaborations = total,
               !.successful_collaborations = succ,
               !.average_completion_time = navg,
               !.agent_utilization = util]

\* the update writing back the counters of an empty registry (a lost update)
update_performance_metrics_lost(m, session) ==
  LET avg   == m.average_completion_time
      navg  == Norm(session.duration, 1)
      util  == [a \in DOMAIN m.agent_utilization \cup Range(session.participants) |->
                  IF a \in Range(session.participants) THEN 1
                  ELSE m.agent_utilization[a]]
  IN [m EXCEPT !.total_collaborations = 1,
               !.successful_collaborations = 1,
               !.average_completion_time = navg,
               !.agent_utilization = util]

update_performance_metrics(m, session) ==
  LET total == m.total_collaborations + 1
      succ  == IF session.status = "completed"
               THEN m.successful_collaborations + 1
               ELSE m.successful_collaborations
      avg   == m.average_completion_time
      \* (avg * (succ - 1) + duration) / succ
      navg  == Norm(avg.num * (succ - 1) + session.duration * avg.den,
                    avg.den * succ)
      util  == [a \in DOMAIN m.agent_utilization \cup Range(session.participants) |->
                  (IF a \in DOMAIN m.agent_utilization
                   THEN m.agent_utilization[a] ELSE 0)
                  + (IF a \in Range(session.participants) THEN 1 ELSE 0)]
  IN [m EXCEPT !.total_collaborations = total,
               !.successful_collaborations = succ,
               !.average_completion_time = navg,
               !.agent_utilization = util]


\* ------------------------------------------------------------ the state
VARIABLES
  now,                    \* the wall clock, in seconds
  runs,                   \* the calls of initiate_collaboration, by slot
  active_collaborations,  \* SADPCore.active_collaborations: id -> session
  conflict_history,       \* SADPCore.conflict_history
  performance_metrics,    \* SADPCore.performance_metrics
  uuid,                   \* number of conflict ids handed out by uuid4
  returned,               \* ids the submission boundary has answered with
  lastResponse,           \* HTTP status of the last submission
  call                    \* a direct call of one function of the core

vars == << now, runs, active_collaborations, conflict_history,
           performance_metrics, uuid, returned, lastResponse, call >>

RoundKey == << "round_1", "round_2", "round_3" >>

\* the session dict of lines 130-139 plus the locals of the coroutine
NewRun(id, mode, parts, via) ==
  [ id |-> id, mode |-> mode, request |-> parts, via |-> via,
    pc |-> "queued", status |-> "active",
    participants |-> <<>>, timeline |-> <<>>, conflicts |-> <<>>,
    results |-> <<>>, started_at |-> 0, completed_at |-> 0, duration |-> 0,
    order |-> <<>>, idx |-> 0, round |-> 0, round_results |-> <<>>,
    plan |-> <<>>, inflight |-> {}, task_done |-> <<>>,
    \* the history of the run: workers invoked, invocations that raised,
    \* conflicts the detector returned
    invoked |-> <<>>, raised |-> <<>>, detected |-> <<>>,
    \* context["previous_results"] of the sequential invocation in flight
    previous_results |-> <<>>,
    \* the steps executed after the MaxPlanLen steps the plan records, modulo 2
    beyond |-> 0,
    \* context["previous_rounds"] and context["current_round"] of the
    \* interactive invocation in flight
    previous_rounds |-> <<>>, current_round |-> <<>> ]

Invoke(r, agent) ==
  [r EXCEPT !.pc = "waiting", !.inflight = @ \cup {agent},
            !.invoked = Append(@, agent)]

Finishing(r) == [r EXCEPT !.pc = "finishing", !.inflight = {}]

\* the record stored at line 165
SessionOf(r) ==
  [ id |-> r.id, request |-> [mode |-> r.mode, participants |-> r.request],
    status |-> r.status, participants |-> r.participants,
    timeline |-> r.timeline, conflicts |-> r.conflicts, results |-> r.results,
    started_at |-> r.started_at, completed_at |-> r.completed_at,
    duration |-> r.duration ]

\* the end of the call handing the session to the metrics twice
Commit_twice(s, step) ==
  LET m1 == [performance_metrics EXCEPT
               !.conflicts_resolved = @ + Len(step.newRes)]
      r  == step.run
  IN /\ conflict_history' = AppendHistory(conflict_history, step.newRes)
     /\ uuid' = step.uid
     /\ IF r.pc = "finishing"
        THEN LET done == [r EXCEPT !.pc = "done", !.status = "completed",
                                   !.completed_at = now,
                                   !.duration = now - r.started_at]
             IN /\ runs' = [runs EXCEPT ![s] = done]
                /\ active_collaborations' =
                     [i \in DOMAIN active_collaborations \cup {r.id} |->
                        IF i = r.id THEN SessionOf(done)
                        ELSE active_collaborations[i]]
                /\ performance_metrics' =
                     update_performance_metrics(
                       update_performance_metrics(m1, SessionOf(done)),
                       SessionOf(done))
        ELSE /\ runs' = [runs EXCEPT ![s] = r]
             /\ active_collaborations' = active_collaborations
             /\ performance_metrics' = m1

\* the end of the call recording a session whose invocations all failed as
\* failed, counted in the total only
Commit_failed(s, step) ==
  LET m1 == [performance_metrics EXCEPT
               !.conflicts_resolved = @ + Len(step.newRes)]
      r  == step.run
      allFailed == r.invoked # <<>> /\ Len(r.raised) = Len(r.invoked)
  IN /\ conflict_history' = AppendHistory(conflict_history, step.newRes)
     /\ uuid' = step.uid
     /\ IF r.pc = "finishing"
        THEN LET done == [r EXCEPT !.pc = "done",
                                   !.status = IF allFailed THEN "failed"
                                              ELSE "completed",
                                   !.completed_at = now,
                                   !.duration = now - r.started_at]
             IN /\ runs' = [runs EXCEPT ![s] = done]
                /\ active_collaborations' =
                     [i \in DOMAIN active_collaborations \cup {r.id} |->
                        IF i = r.id THEN SessionOf(done)
                        ELSE active_collaborations[i]]
                /\ performance_metrics' =
                     IF allFailed
                     THEN [m1 EXCEPT !.total_collaborations = @ + 1]
                     ELSE update_performance_metrics(m1, SessionOf(done))
        ELSE /\ runs' = [runs EXCEPT ![s] = r]
             /\ active_collaborations' = active_collaborations
             /\ performance_metrics' = m1

\* the bookkeeping of resolve_conflicts counting only the resolutions of the
\* first session that resolves
Commit_first(s, step) ==
  LET m1 == [performance_metrics EXCEPT
               !.conflicts_resolved =
                  @ + (IF conflict_history = <<>> THEN Len(step.newRes) ELSE 0)]
      r  == step.run
  IN /\ conflict_history' = AppendHistory(conflict_history, step.newRes)
     /\ uuid' = step.uid
     /\ IF r.pc = "finishing"
        THEN LET done == [r EXCEPT !.pc = "done", !.status = "completed",
                                   !.completed_at = now,
                                   !.duration = now - r.started_at]
             IN /\ runs' = [runs EXCEPT ![s] = done]
                /\ active_collaborations' =
                     [i \in DOMAIN active_collaborations \cup {r.id} |->
                        IF i = r.id THEN SessionOf(done)
                        ELSE active_collaborations[i]]
                /\ performance_metrics' =
                     update_performance_metrics(m1, SessionOf(done))
        ELSE /\ runs' = [runs EXCEPT ![s] = r]
             /\ active_collaborations' = active_collaborations
             /\ performance_metrics' = m1

\* lines 160-166 for a run whose plan is exhausted; otherwise only the
\* bookkeeping of resolve_conflicts (history, counter, ids)
Commit(s, step) ==
  LET m1 == [performance_metrics EXCEPT
               !.conflicts_resolved = @ + Len(step.newRes)]
      r  == step.run
  IN /\ conflict_history' = AppendHistory(conflict_history, step.newRes)
     /\ uuid' = step.uid
     /\ IF r.pc = "finishing"
        THEN LET done == [r EXCEPT !.pc = "done", !.status = "completed",
                                   !.completed_at = now,
                                   !.duration = now - r.started_at]
             IN /\ runs' = [runs EXCEPT ![s] = done]
                /\ active_collaborations' =
                     [i \in DOMAIN active_collaborations \cup {r.id} |->
                        IF i = r.id THEN SessionOf(done)
                        ELSE active_collaborations[i]]
                /\ performance_metrics' =
                     update_performance_metrics(m1, SessionOf(done))
        ELSE /\ runs' = [runs EXCEPT ![s] = r]
             /\ active_collaborations' = active_collaborations
             /\ performance_metrics' = m1

NoStep(r) == [run |-> r, newRes |-> <<>>, uid |-> uuid]

\* ---- execute_sequential_collaboration
\* the invocation handed a context without the newest result
SeqInvoke_stale(r, agent) ==
  [Invoke(r, agent) EXCEPT
     !.previous_results = IF r.results = <<>> THEN <<>>
                          ELSE SubSeq(r.results, 1, Len(r.results) - 1)]

\* lines 225-229: the context carries the results mapping as it is when the
\* worker is invoked
SeqInvoke(r, agent) == [Invoke(r, agent) EXCEPT !.previous_results = r.results]

SeqStart(r) ==
  LET order == determine_execution_order(r.participants)
      r1    == [r EXCEPT !.order = order, !.idx = 1]
  IN IF order = <<>> THEN Finishing(r1) ELSE SeqInvoke(r1, order[1])

\* mutant: line 235 assigns the batch instead of extending the list
SeqReturn_assign(r, agent_name, agent_result) ==
  LET results1   == Put(r.results, agent_name, agent_result)
      conflicts  == detect_conflicts(agent_name, agent_result, results1, uuid)
      resolution == resolve_conflicts(conflicts)
      results2   == IF conflicts # <<>>
                    THEN Put(results1, agent_name,
                             ApplySingle(agent_result, resolution))
                    ELSE results1
      r1 == [r EXCEPT !.results = results2,
                      !.conflicts = IF conflicts # <<>> THEN conflicts ELSE @,
                      !.detected = @ \o conflicts,
                      !.timeline = Append(@, TimelineEntry(agent_name, agent_result)),
                      !.inflight = {},
                      !.idx = @ + 1]
  IN [run |-> IF r1.idx <= Len(r1.order)
              THEN SeqInvoke(r1, r1.order[r1.idx]) ELSE Finishing(r1),
      newRes |-> resolution, uid |-> uuid + Len(conflicts)]

\* the loop putting the newest timeline entry first
SeqReturn_front(r, agent_name, agent_result) ==
  LET results1   == Put(r.results, agent_name, agent_result)
      conflicts  == detect_conflicts(agent_name, agent_result, results1, uuid)
      resolution == resolve_conflicts(conflicts)
      results2   == IF conflicts # <<>>
                    THEN Put(results1, agent_name,
                             ApplySingle(agent_result, resolution))
                    ELSE results1
      r1 == [r EXCEPT !.results = results2,
                      !.conflicts = @ \o conflicts,
                      !.detected = @ \o conflicts,
                      !.timeline = << TimelineEntry(agent_name, agent_result) >> \o @,
                      !.inflight = {},
                      !.idx = @ + 1]
  IN [run |-> IF r1.idx <= Len(r1.order)
              THEN SeqInvoke(r1, r1.order[r1.idx]) ELSE Finishing(r1),
      newRes |-> resolution, uid |-> uuid + Len(conflicts)]

SeqReturn(r, agent_name, agent_result) ==
  LET results1   == Put(r.results, agent_name, agent_result)
      conflicts  == detect_conflicts(agent_name, agent_result, results1, uuid)
      resolution == resolve_conflicts(conflicts)
      results2   == IF conflicts # <<>>
                    THEN Put(results1, agent_name,
                             ApplySingle(agent_result, resolution))
                    ELSE results1
      r1 == [r EXCEPT !.results = results2,
                      !.conflicts = @ \o conflicts,
                      !.detected = @ \o conflicts,
                      !.timeline = Append(@, TimelineEntry(agent_name, agent_result)),
                      !.inflight = {},
                      !.idx = @ + 1]
  IN [run |-> IF r1.idx <= Len(r1.order)
              THEN SeqInvoke(r1, r1.order[r1.idx]) ELSE Finishing(r1),
      newRes |-> resolution, uid |-> uuid + Len(conflicts)]

\* ---- execute_parallel_collaboration
ParStart(r) ==
  IF r.participants = <<>> THEN Finishing(r)
  ELSE [r EXCEPT !.pc = "waiting", !.inflight = Range(r.participants),
                 !.invoked = r.participants, !.idx = 1]

\* the second loop: collect the tasks in creation order as far as they are done
RECURSIVE ParCollect(_)
ParCollect(r) ==
  IF r.idx <= Len(r.participants) /\ HasKey(r.task_done, r.participants[r.idx])
  THEN LET a   == r.participants[r.idx]
           res == Get(r.task_done, a)
       IN ParCollect([r EXCEPT !.results = Put(@, a, res),
                               !.timeline = Append(@, TimelineEntry(a, res)),
                               !.idx = @ + 1])
  ELSE r

\* the loop detecting and resolving on the results collected so far at every
\* collection instead of once after the loop
ParReturn_partial(r, agent_name, agent_result) ==
  LET r1 == ParCollect([r EXCEPT !.task_done = Put(@, agent_name, agent_result),
                                 !.inflight = @ \ {agent_name}])
      all_conflicts == detect_all_conflicts(r1.results, uuid)
      resolution    == resolve_conflicts(all_conflicts)
      r2 == [r1 EXCEPT !.conflicts = @ \o all_conflicts,
                       !.detected = @ \o all_conflicts,
                       !.results = IF all_conflicts # <<>>
                                   THEN ApplyMulti(@, resolution)
                                   ELSE @]
  IN [run |-> IF r1.idx <= Len(r1.participants) THEN r2 ELSE Finishing(r2),
      newRes |-> resolution, uid |-> uuid + Len(all_conflicts)]

ParReturn(r, agent_name, agent_result) ==
  LET r1 == ParCollect([r EXCEPT !.task_done = Put(@, agent_name, agent_result),
                                 !.inflight = @ \ {agent_name}])
  IN IF r1.idx <= Len(r1.participants)
     THEN NoStep(r1)
     ELSE LET all_conflicts == detect_all_conflicts(r1.results, uuid)
              resolution    == resolve_conflicts(all_conflicts)
          IN [run |-> Finishing(
                        [r1 EXCEPT !.conflicts = @ \o all_conflicts,
                                   !.detected = @ \o all_conflicts,
                                   !.results = IF all_conflicts # <<>>
                                               THEN ApplyMulti(@, resolution)
                                               ELSE @]),
              newRes |-> resolution, uid |-> uuid + Len(all_conflicts)]


\* ---- execute_interactive_collaboration
\* the invocation handed an empty current round
IntInvoke_blind(r, agent) ==
  [Invoke(r, agent) EXCEPT !.previous_rounds = r.results,
                           !.current_round = <<>>]

\* lines 292-299: the context carries the results of the earlier rounds and
\* the mapping of the current round as they are when the worker is invoked
IntInvoke(r, agent) ==
  [Invoke(r, agent) EXCEPT !.previous_rounds = r.results,
                           !.current_round = r.round_results]

IntStart(r) ==
  IF r.participants = <<>>
  THEN Finishing([r EXCEPT !.results =
                    [n \in 1..interaction_rounds |->
                       [key |-> RoundKey[n], val |-> <<>>]],
                    !.round = interaction_rounds])
  ELSE IntInvoke([r EXCEPT !.round = 1, !.idx = 1], r.participants[1])

IntReturn(r, agent_name, agent_result) ==
  LET rr1 == Put(r.round_results, agent_name, agent_result)
      rr2 == Put(rr1, FeedbackKey(agent_name),
                 generate_agent_feedback(agent_name, rr1))
  IN IF r.idx < Len(r.participants)
     THEN NoStep(IntInvoke([r EXCEPT !.round_results = rr2, !.idx = @ + 1,
                                     !.inflight = {}],
                           r.participants[r.idx + 1]))
     ELSE LET conflicts  == detect_all_conflicts(rr2, uuid)
              resolution == resolve_conflicts(conflicts)
              r1 == [r EXCEPT !.results = Put(@, RoundKey[r.round], rr2),
                              !.conflicts = @ \o conflicts,
                              !.detected = @ \o conflicts,
                              !.round_results = <<>>, !.inflight = {},
                              !.idx = 1]
          IN [run |-> IF r.round < interaction_rounds
                      THEN IntInvoke([r1 EXCEPT !.round = @ + 1],
                                     r.participants[1])
                      ELSE Finishing(r1),
              newRes |-> resolution, uid |-> uuid + Len(conflicts)]

\* ---- execute_autonomous_collaboration
AutoStart(r) ==
  LET plan == generate_autonomous_plan
  IN Invoke([r EXCEPT !.plan = plan, !.idx = 1], plan[1].agent)

AutoReturn(r, agent_name, step_results) ==
  LET step == r.plan[r.idx]
      plan == IF step_results.adapt
              THEN adapt_autonomous_plan(r.plan, step_results, step.id)
              ELSE r.plan
      r1   == [r EXCEPT !.results = Put(@, step.id, step_results),
                        !.plan = plan, !.inflight = {}, !.idx = @ + 1]
  IN NoStep(IF r1.idx <= Len(plan)
            THEN Invoke(r1, plan[r1.idx].agent) ELSE Finishing(r1))

\* ------------------------------------------------------------ the actions
Init ==
  /\ now = 0
  /\ runs = <<>>
  /\ active_collaborations = <<>>
  /\ conflict_history = <<>>
  /\ performance_metrics =
       [ total_collaborations |-> 0, successful_collaborations |-> 0,
         conflicts_resolved |-> 0,
         average_completion_time |-> [num |-> 0, den |-> 1],
         agent_utilization |-> <<>> ]
  /\ uuid = 0
  /\ returned = {}
  /\ lastResponse = 0
  /\ call = [fn |-> "none"]

Tick ==
  /\ now < MaxTime
  /\ now' = now + 1
  /\ UNCHANGED << runs, active_collaborations, conflict_history,
                  performance_metrics, uuid, returned, lastResponse, call >>

\* POST /collaborate: CollaborationMode(request.mode) raises ValueError for an
\* unknown mode (HTTP 400); otherwise the request gets the id of the current
\* second, the background task is queued and the id is returned
start_collaboration(mode, parts, limit) ==
  IF mode \notin Modes
  THEN /\ lastResponse' = 400
       /\ UNCHANGED << now, runs, active_collaborations, conflict_history,
                       performance_metrics, uuid, returned, call >>
  ELSE /\ Len(runs) < limit
       /\ runs' = Append(runs, NewRun(now, mode, parts, "api"))
       /\ returned' = returned \cup {now}
       /\ lastResponse' = 200
       /\ UNCHANGED << now, active_collaborations, conflict_history,
                       performance_metrics, uuid, call >>

\* a caller of the core that hands initiate_collaboration a request whose
\* mode is not a member of CollaborationMode
CoreCall(mode, parts, limit) ==
  /\ mode \notin Modes
  /\ Len(runs) < limit
  /\ runs' = Append(runs, NewRun(now, mode, parts, "core"))
  /\ UNCHANGED << now, active_collaborations, conflict_history,
                  performance_metrics, uuid, returned, lastResponse, call >>

\* mutant: the last branch of the chain written as a plain else
RunMode_else(r) ==
  CASE r.mode = "sequential"  -> SeqStart(r)
    [] r.mode = "parallel"    -> ParStart(r)
    [] r.mode = "interactive" -> IntStart(r)
    [] OTHER -> AutoStart(r)

\* the if/elif chain of lines 150-157, up to the first suspension
RunMode(r) ==
  CASE r.mode = "sequential"  -> SeqStart(r)
    [] r.mode = "parallel"    -> ParStart(r)
    [] r.mode = "interactive" -> IntStart(r)
    [] r.mode = "autonomous"  -> AutoStart(r)
    \* no branch taken: line 162 reads the unbound local "result"
    [] OTHER -> [r EXCEPT !.pc = "failed", !.status = "completed",
                          !.completed_at = now]

\* initiate_collaboration up to its first suspension
Begin(s) ==
  /\ runs[s].pc = "queued"
  /\ LET r == [runs[s] EXCEPT !.started_at = now,
                              !.participants =
                                PrepareParticipants(runs[s].request)]
     IN Commit(s, NoStep(RunMode(r)))
  /\ UNCHANGED << now, returned, lastResponse, call >>

\* a worker invocation returns or raises, and the coroutine runs on to its
\* next suspension or to its end
WorkerReturn(s, agent_name, out) ==
  /\ runs[s].pc = "waiting"
  /\ agent_name \in runs[s].inflight
  /\ LET r      == IF out.raises
                   THEN [runs[s] EXCEPT !.raised = Append(@, agent_name)]
                   ELSE runs[s]
         result == execute_agent_task(agent_name, out)
     IN Commit(s,
          CASE r.mode = "sequential"  -> SeqReturn(r, agent_name, result)
            [] r.mode = "parallel"    -> ParReturn(r, agent_name, result)
            [] r.mode = "interactive" -> IntReturn(r, agent_name, result)
            [] r.mode = "autonomous"  -> AutoReturn(r, agent_name, result))
  /\ UNCHANGED << now, returned, lastResponse, call >>

\* The life of one session: one request, submitted through the boundary or
\* handed to the core, with every mode, participant list and worker answer.
Next ==
  \/ Tick
  \/ \E mode \in RequestModes, parts \in ParticipantLists :
       start_collaboration(mode, parts, 1)
  \/ \E mode \in RequestModes, parts \in ParticipantLists :
       CoreCall(mode, parts, 1)
  \/ \E s \in 1..Len(runs) : Begin(s)
  \/ \E s \in 1..Len(runs), a \in Agents :
       \E out \in WorkerOuts(runs[s].mode, a, Len(runs[s].plan)) :
         WorkerReturn(s, a, out)

Spec == Init /\ [][Next]_vars

\* The same session on an event loop that runs every ready coroutine, with
\* workers whose every invocation returns or raises.
\* Begin is enabled exactly when a call is queued, WorkerReturn exactly when
\* a call waits for a worker; a step that moves a queued call is a Begin step,
\* one that changes a waiting call is a WorkerReturn step.
Queued == \E s \in 1..Len(runs) : runs[s].pc = "queued"

Waiting == \E s \in 1..Len(runs) : runs[s].pc = "waiting"

BeginStep ==
  \E s \in 1..Len(runs) :
    runs[s].pc = "queued" /\ Len(runs') = Len(runs) /\ runs'[s].pc # "queued"

ReturnStep ==
  \E s \in 1..Len(runs) :
    runs[s].pc = "waiting" /\ Len(runs') = Len(runs) /\ runs'[s] # runs[s]

\* weak fairness of Begin and of WorkerReturn, written with their enabling
\* conditions: WF_vars(A) is (<>[]ENABLED <<A>>_vars) => []<><<A>>_vars
Fairness ==
  /\ (<>[]Queued) => ([]<><<BeginStep>>_vars)
  /\ (<>[]Waiting) => ([]<><<ReturnStep>>_vars)

SpecLive == Init /\ [][Next]_vars /\ Fairness

\* The life of one session, also for a request without claude, whose every
\* worker invocation can fail.
FailParticipantLists == ParticipantLists \cup { <<"cursor_ai", "figma_ai">> }

NextFail ==
  \/ Tick
  \/ \E mode \in RequestModes, parts \in FailParticipantLists :
       start_collaboration(mode, parts, 1)
  \/ \E mode \in RequestModes, parts \in FailParticipantLists :
       CoreCall(mode, parts, 1)
  \/ \E s \in 1..Len(runs) : Begin(s)
  \/ \E s \in 1..Len(runs), a \in Agents :
       \E out \in WorkerOuts(runs[s].mode, a, Len(runs[s].plan)) :
         WorkerReturn(s, a, out)

SpecFail == Init /\ [][NextFail]_vars

\* An autonomous session in which every result of figma_ai sets both
\* requires_adaptation and requires_additional_design. Each such result
\* appends one more figma_ai step, so the plan of the code grows without end.
\* The model records the first MaxPlanLen steps of the plan; of the steps
\* executed after them it keeps only their number modulo 2.
AdaptOuts(agent, planLen) ==
  CASE agent = "claude"    -> {NoOut}
    [] agent = "figma_ai"  -> IF planLen < MaxPlanLen
                              THEN {OutAddDesign, OutAddDesignId} ELSE {}
    [] agent = "cursor_ai" -> {OutRaise, OutScore(40), OutAdapt}

\* lines 324-330 past the recorded plan: the figma_ai step in flight returns
\* with both flags, adapt_autonomous_plan appends one more figma_ai step and
\* the loop invokes it; the session is again waiting for figma_ai
UnrecordedReturn(s) ==
  /\ runs[s].mode = "autonomous"
  /\ runs[s].pc = "waiting"
  /\ Len(runs[s].plan) = MaxPlanLen
  /\ runs[s].inflight = {"figma_ai"}
  /\ runs' = [runs EXCEPT ![s].beyond = 1 - @]
  /\ UNCHANGED << now, active_collaborations, conflict_history,
                  performance_metrics, uuid, returned, lastResponse, call >>

NextAdapt ==
  \/ Tick
  \/ \E parts \in ParticipantLists :
       start_collaboration("autonomous", parts, 1)
  \/ \E s \in 1..Len(runs) : Begin(s)
  \/ \E s \in 1..Len(runs), a \in Agents :
       \E out \in AdaptOuts(a, Len(runs[s].plan)) : WorkerReturn(s, a, out)
  \/ \E s \in 1..Len(runs) : UnrecordedReturn(s)

FairnessAdapt ==
  /\ WF_vars(\E s \in 1..Len(runs) : Begin(s))
  /\ WF_vars(\E s \in 1..Len(runs), a \in Agents :
               \E out \in AdaptOuts(a, Len(runs[s].plan)) :
                 WorkerReturn(s, a, out))
  /\ WF_vars(\E s \in 1..Len(runs) : UnrecordedReturn(s))

SpecAdapt == Init /\ [][NextAdapt]_vars /\ FairnessAdapt

\* Several sessions on one core, their background tasks interleaved at the
\* worker invocations; requests and worker answers come from smaller sets.
ApiModes == {"sequential", "parallel"}

ApiParticipantLists == { <<"claude", "figma_ai">> }

ApiOuts(agent) == IF agent = "claude" THEN {NoOut} ELSE {OutRaise, OutScore(40)}

NextApi ==
  \/ Tick
  \/ \E mode \in ApiModes, parts \in ApiParticipantLists :
       start_collaboration(mode, parts, MaxRequests)
  \/ \E s \in 1..Len(runs) : Begin(s)
  \/ \E s \in 1..Len(runs), a \in Agents :
       \E out \in ApiOuts(a) : WorkerReturn(s, a, out)

SpecApi == Init /\ [][NextApi]_vars


\* ------------------------------------------------ direct calls of the core
\* a result dict written by hand, as the tests do
HandMade(agent, hasScore, score) ==
  [agent |-> agent, status |-> "success", type |-> "task",
   hasScore |-> hasScore, score |-> score, error |-> "",
   adapt |-> FALSE, addDesign |-> FALSE, stepId |-> FALSE,
   hasRes |-> FALSE, res |-> <<>>]

ScoreValues == {0, 20, 21, 40, 60, 61, 95}

DetectResults(agent) ==
  {HandMade(agent, FALSE, 0)} \cup {HandMade(agent, TRUE, q) : q \in ScoreValues}

\* detect_conflicts(a, ra, all_results): all_results holds the other worker's
\* result, and with withSelf also the worker's own (as in sequential mode)
DetectCall(a, b, ra, rb, withSelf) ==
  /\ call.fn = "none"
  /\ a # b
  /\ LET all_results == (IF withSelf THEN << [key |-> a, val |-> ra] >> ELSE <<>>)
                        \o << [key |-> b, val |-> rb] >>
         ret == detect_conflicts(a, ra, all_results, uuid)
     IN /\ call' = [fn |-> "detect_conflicts", agent_name |-> a,
                    other_agent |-> b, agent_result |-> ra,
                    other_result |-> rb, ret |-> ret]
        /\ uuid' = uuid + Len(ret)
  /\ UNCHANGED << now, runs, active_collaborations, conflict_history,
                  performance_metrics, returned, lastResponse >>

NextDetect ==
  \E a \in Agents, b \in Agents, withSelf \in BOOLEAN :
    \E ra \in DetectResults(a), rb \in DetectResults(b) :
      DetectCall(a, b, ra, rb, withSelf)

SpecDetect == Init /\ [][NextDetect]_vars

\* the planner on the participants of a request: lines 142-147, then
\* determine_execution_order on the prepared mapping
Names == Agents \cup {"ghost"}

NameLists == UNION { [1..n -> Names] : n \in 0..MaxParts }

OrderCall(parts) ==
  /\ call.fn = "none"
  /\ LET participants == PrepareParticipants(parts)
     IN call' = [fn |-> "determine_execution_order", request |-> parts,
                 participants |-> participants,
                 ret |-> determine_execution_order(participants)]
  /\ UNCHANGED << now, runs, active_collaborations, conflict_history,
                  performance_metrics, uuid, returned, lastResponse >>

NextOrder == \E parts \in NameLists : OrderCall(parts)

SpecOrder == Init /\ [][NextOrder]_vars

\* ------------------------------------------------------------ the claims
Count(seq, x) == Cardinality({i \in 1..Len(seq) : seq[i] = x})

Vals(d) == [i \in 1..Len(d) |-> d[i].val]

\* C1: a sequential session of claude, figma_ai and cursor_ai whose results
\* carry the quality scores 95, 40 and 92 ends completed with exactly two
\* conflicts, claude-figma_ai and figma_ai-cursor_ai, both of type quality and
\* both resolved with the quality standardization strategy.
C1_Case(r) ==
  /\ r.pc = "done" /\ r.mode = "sequential"
  /\ Range(r.participants) = Agents
  /\ \A a \in Agents : HasKey(r.results, a) /\ Get(r.results, a).hasScore
  /\ Get(r.results, "claude").score = 95
  /\ Get(r.results, "figma_ai").score = 40
  /\ Get(r.results, "cursor_ai").score = 92

C1_Theorem ==
  \A s \in 1..Len(runs) :
    C1_Case(runs[s]) =>
      LET ses == active_collaborations[runs[s].id]
          cs  == ses.conflicts
      IN /\ ses.status = "completed"
         /\ Len(cs) = 2
         /\ {Range(cs[i].agents) : i \in 1..Len(cs)} =
              { {"claude", "figma_ai"}, {"figma_ai", "cursor_ai"} }
         /\ \A i \in 1..Len(cs) :
              /\ cs[i].type = "quality"
              /\ \E j \in 1..Len(conflict_history) :
                   /\ conflict_history[j].conflict_id = cs[i].id
                   /\ conflict_history[j].resolution_strategy =
                        "quality_standardization"
                   /\ conflict_history[j].success

C1_Witness == \E s \in 1..Len(runs) : C1_Case(runs[s])

Planned(r) ==
  CASE r.mode = "sequential"  -> r.order
    [] r.mode = "parallel"    -> r.participants
    [] r.mode = "interactive" ->
         [i \in 1..(interaction_rounds * Len(r.participants)) |->
            r.participants[((i - 1) % Len(r.participants)) + 1]]
    [] r.mode = "autonomous"  -> [i \in 1..Len(r.plan) |-> r.plan[i].agent]

RECURSIVE Flatten(_)
Flatten(ss) == IF ss = <<>> THEN <<>> ELSE Head(ss) \o Flatten(Tail(ss))

\* every worker result the run holds so far
ResultsSoFar(r) ==
  CASE r.mode = "interactive" ->
         SelectSeq(Flatten(Vals(r.results)) \o r.round_results,
                   LAMBDA e : e.key \notin FeedbackKeys)
    [] r.mode = "parallel" /\ r.pc # "done" -> r.task_done
    [] OTHER -> r.results

ErrorsOf(r, a) ==
  SelectSeq(ResultsSoFar(r),
            LAMBDA e : e.val.agent = a /\ e.val.status = "error")

C3_Theorem ==
  \A s \in 1..Len(runs) :
    LET r == runs[s] IN
    (r.mode \in Modes /\ r.raised # <<>>) =>
      /\ \A a \in Agents :
           /\ Len(ErrorsOf(r, a)) = Count(r.raised, a)
           /\ \A i \in 1..Len(ErrorsOf(r, a)) : ErrorsOf(r, a)[i].val.error # ""
      /\ r.pc \in {"waiting", "done"}
      /\ r.pc = "waiting" => r.inflight # {}
      /\ r.pc = "done" =>
           /\ r.invoked = Planned(r)
           /\ r.status = "completed"
           /\ active_collaborations[r.id].status = "completed"

C3_Witness ==
  \E s \in 1..Len(runs) :
    /\ runs[s].pc = "done"
    /\ runs[s].raised # <<>>
    /\ runs[s].invoked[Len(runs[s].invoked)] # runs[s].raised[1]

C5_Theorem ==
  call.fn = "detect_conflicts" =>
    IF /\ call.agent_result.hasScore /\ call.other_result.hasScore
       /\ \/ call.agent_result.score - call.other_result.score > 20
          \/ call.other_result.score - call.agent_result.score > 20
    THEN /\ Len(call.ret) = 1
         /\ call.ret[1].type = "quality"
         /\ call.ret[1].severity = "medium"
         /\ Len(call.ret[1].agents) = 2
         /\ Range(call.ret[1].agents) = {call.agent_name, call.other_agent}
    ELSE call.ret = <<>>

C5_Witness ==
  /\ call.fn = "detect_conflicts"
  /\ call.agent_result.hasScore /\ call.other_result.hasScore
  /\ call.agent_result.score = 40 /\ call.other_result.score = 20
  /\ call.ret = <<>>

\* C6: the sequential order holds every participant exactly once and nothing
\* else, claude before figma_ai before cursor_ai, whatever the order of the
\* request's list; with all three it is claude, figma_ai, cursor_ai.
Rank(a) == CASE a = "claude" -> 1 [] a = "figma_ai" -> 2 [] a = "cursor_ai" -> 3

C6_Theorem ==
  call.fn = "determine_execution_order" =>
    LET o == call.ret IN
    /\ Range(o) = Range(call.participants)
    /\ Range(call.participants) = Range(call.request) \cap Agents
    /\ \A p \in Range(call.participants) : Count(o, p) = 1
    /\ \A i \in 1..Len(o) : \A j \in 1..Len(o) :
         i < j => Rank(o[i]) < Rank(o[j])
    /\ Range(call.participants) = Agents =>
         o = <<"claude", "figma_ai", "cursor_ai">>

C6_Witness ==
  /\ call.fn = "determine_execution_order"
  /\ call.request = <<"cursor_ai", "claude", "figma_ai">>
  /\ call.ret = <<"claude", "figma_ai", "cursor_ai">>


\* GET /collaborate/{id}: 404 unless the id is a key of active_collaborations
get_collaboration_status(id) ==
  IF id \notin DOMAIN active_collaborations
  THEN [code |-> 404]
  ELSE [code |-> 200, id |-> active_collaborations[id].id,
        status |-> active_collaborations[id].status,
        results |-> active_collaborations[id].results]

\* GET /collaborate
list_collaborations == DOMAIN active_collaborations

\* C7 (as stated): once the boundary has returned a session id, a lookup by
\* that id finds the session and the listing includes it, at any later time.
C7_Original ==
  \A id \in returned :
    /\ get_collaboration_status(id).code = 200
    /\ id \in list_collaborations

\* C8 (as stated): a record stored with status completed is never changed by
\* a later operation.
C8_Original ==
  [][ \A id \in DOMAIN active_collaborations :
        active_collaborations[id].status = "completed" =>
          /\ id \in DOMAIN active_collaborations'
          /\ active_collaborations'[id] = active_collaborations[id] ]_vars

\* C9: a request whose mode is none of the four is rejected: the boundary
\* answers 400 and changes nothing; the core, handed such a request, fails
\* without invoking a worker, storing a session or touching the metrics.
C9_Theorem ==
  /\ [] (\A s \in 1..Len(runs) :
           runs[s].mode \notin Modes =>
             /\ runs[s].invoked = <<>>
             /\ runs[s].pc \in {"queued", "failed"}
             /\ runs[s].id \notin DOMAIN active_collaborations
             /\ performance_metrics.total_collaborations = 0
             /\ performance_metrics.successful_collaborations = 0
             /\ performance_metrics.conflicts_resolved = 0
             /\ performance_metrics.average_completion_time.num = 0
             /\ performance_metrics.agent_utilization = <<>>)
  /\ [][ (lastResponse # 400 /\ lastResponse' = 400) =>
           UNCHANGED << runs, active_collaborations, conflict_history,
                        performance_metrics, returned >> ]_vars

C9_Witness ==
  /\ lastResponse = 400
  /\ \E s \in 1..Len(runs) : runs[s].mode \notin Modes /\ runs[s].pc = "failed"

\* C10 (as stated, for whichever step triggers): in an autonomous session in
\* which exactly one step result sets requires_adaptation, the final plan has
\* 4 steps and the appended step depends on exactly the triggering step.
C10_Flagged(r) == {i \in 1..Len(r.results) : r.results[i].val.adapt}

C10_Original ==
  \A s \in 1..Len(runs) :
    LET r == runs[s] IN
    (r.mode = "autonomous" /\ r.pc = "done" /\ Cardinality(C10_Flagged(r)) = 1) =>
      /\ Len(r.plan) = 4
      /\ r.plan[4].dependencies =
           << r.results[CHOOSE i \in C10_Flagged(r) : TRUE].key >>

\* the workers that own the entries of a results mapping, one per entry
\* (the feedback entries of an interactive round are left out)
OwnersOf(d) ==
  LET own == SelectSeq(d, LAMBDA e : e.key \notin FeedbackKeys)
  IN [i \in 1..Len(own) |-> own[i].val.agent]

\* C11 (as stated): when a session is completed its results hold exactly one
\* entry for each participant and none for anyone else, per round in
\* interactive mode; an autonomous session with participants P has results
\* for exactly the workers in P.
C11_Original ==
  \A s \in 1..Len(runs) :
    LET r == runs[s]
        OnePerParticipant(d) ==
          /\ Range(OwnersOf(d)) = Range(r.participants)
          /\ Len(OwnersOf(d)) = Len(r.participants)
    IN (r.mode \in Modes /\ r.pc = "done") =>
         IF r.mode = "interactive"
         THEN /\ Len(r.results) = interaction_rounds
              /\ \A k \in 1..Len(r.results) : OnePerParticipant(r.results[k].val)
         ELSE OnePerParticipant(r.results)

\* the positions of the history holding a resolution of the conflict id
ResolutionsOf(id) ==
  {j \in 1..Len(conflict_history) : conflict_history[j].conflict_id = id}

\* C12: every conflict in the conflict list of any session has exactly one
\* resolution in the process-wide history, and every resolution in the history
\* is for a conflict that some session lists, already while that session runs
\* and after it has completed.
C12_Theorem ==
  /\ \A s \in 1..Len(runs) : \A i \in 1..Len(runs[s].conflicts) :
       Cardinality(ResolutionsOf(runs[s].conflicts[i].id)) = 1
  /\ \A j \in 1..Len(conflict_history) :
       Cardinality({ <<s, i>> \in (1..Len(runs)) \X (1..(Len(conflict_history))) :
                       /\ i <= Len(runs[s].conflicts)
                       /\ runs[s].conflicts[i].id =
                            conflict_history[j].conflict_id }) = 1
  /\ \A s \in 1..Len(runs) :
       runs[s].pc = "done" =>
         \A i \in 1..Len(runs[s].conflicts) :
           \E j \in 1..Len(conflict_history) :
             /\ conflict_history[j].conflict_id = runs[s].conflicts[i].id
             /\ conflict_history[j].affected_agents = runs[s].conflicts[i].agents

C12_Witness ==
  \E s \in 1..Len(runs) : \E t \in 1..Len(runs) :
    /\ s # t
    /\ runs[s].pc = "done" /\ runs[t].pc = "done"
    /\ runs[s].conflicts # <<>> /\ runs[t].conflicts # <<>>
    /\ Len(conflict_history) = Len(runs[s].conflicts) + Len(runs[t].conflicts)

\* ---- direct calls of resolve_conflicts and of the five handlers, with
\* ---- conflicts made by hand as test_resolve_quality_conflict makes one
HandMadeConflict(id, type) ==
  [id |-> id, type |-> type, agents |-> <<"claude", "cursor_ai">>,
   severity |-> "medium"]

\* the types of the conflicts in a batch; "bogus" is no value of ConflictType
BatchTypes == {"quality", "timeline", "bogus"}

Batches == UNION { [1..n -> BatchTypes] : n \in 0..MaxBatch }

CallCount == IF "n" \in DOMAIN call THEN call.n ELSE 0

ResolveCall(types) ==
  LET conflicts == [i \in 1..Len(types) |->
                      HandMadeConflict(uuid + i, types[i])]
      resolutions == resolve_conflicts(conflicts)
  IN /\ CallCount < MaxCalls
     /\ conflict_history' = AppendHistory(conflict_history, resolutions)
     /\ performance_metrics' =
          [performance_metrics EXCEPT
             !.conflicts_resolved = @ + Len(resolutions)]
     /\ uuid' = uuid + Len(types)
     /\ call' = [fn |-> "resolve_conflicts", n |-> CallCount + 1,
                 conflicts |-> conflicts,
                 raised |-> ResolveRaises(conflicts),
                 ret |-> IF ResolveRaises(conflicts) THEN <<>> ELSE resolutions,
                 before |-> conflict_history]
     /\ UNCHANGED << now, runs, active_collaborations, returned, lastResponse >>

HandlerCall(type) ==
  LET conflict == HandMadeConflict("test_conflict_001", type)
  IN /\ call' = [fn |-> "resolver", n |-> CallCount, conflict |-> conflict,
                 ret |-> conflict_resolvers(conflict)]
     /\ UNCHANGED << now, runs, active_collaborations, conflict_history,
                     performance_metrics, uuid, returned, lastResponse >>

NextResolve ==
  \/ \E types \in Batches : ResolveCall(types)
  \/ \E type \in ConflictTypes : HandlerCall(type)

SpecResolve == Init /\ [][NextResolve]_vars

\* C13 (as stated): when a batch handed to the resolver holds a conflict of an
\* unknown type, only that conflict fails: every conflict of a known type in
\* the batch, before and after it, gets its resolution appended to the
\* history.
C13_Original ==
  (call.fn = "resolve_conflicts") =>
    \A i \in 1..Len(call.conflicts) :
      call.conflicts[i].type \in ConflictTypes =>
        \E j \in (Len(call.before) + 1)..Len(conflict_history) :
          conflict_history[j].conflict_id = call.conflicts[i].id

\* C19: each of the five registered handlers (resource, priority, dependency,
\* timeline, quality) returns a resolution whose conflict id, conflict type
\* and affected workers are those of the conflict, with the success flag set
\* and a non-empty list of actions; the quality handler's actions are, in
\* order: set the quality standard to 90, require peer review by claude,
\* enable automated quality checks. The resolver picks the handler of the
\* conflict's type.
C19_Theorem ==
  /\ (call.fn = "resolver") =>
       /\ call.ret.conflict_id = call.conflict.id
       /\ call.ret.conflict_type = call.conflict.type
       /\ call.ret.affected_agents = call.conflict.agents
       /\ call.ret.success = TRUE
       /\ call.ret.resolution_actions # <<>>
       /\ (call.conflict.type = "quality") =>
            /\ [i \in 1..Len(call.ret.resolution_actions) |->
                  call.ret.resolution_actions[i].action]
                 = << "set_quality_standard", "require_peer_review",
                      "implement_quality_checks" >>
            /\ call.ret.resolution_actions[1].value = 90
            /\ call.ret.resolution_actions[2].value = <<"claude">>
            /\ call.ret.resolution_actions[3].value = TRUE
  /\ (call.fn = "resolve_conflicts") =>
       \A i \in 1..Len(call.ret) :
         /\ call.ret[i].conflict_id = call.conflicts[i].id
         /\ call.ret[i].conflict_type = call.conflicts[i].type
         /\ call.ret[i].affected_agents = call.conflicts[i].agents
         /\ call.ret[i].success = TRUE
         /\ call.ret[i].resolution_actions # <<>>

C19_Witness ==
  /\ call.fn = "resolver"
  /\ call.conflict.type = "quality"
  /\ call.ret.success
  /\ Len(call.ret.resolution_actions) = 3

\* C20: the conflict history only grows at its end: a call that resolves a
\* batch of k conflicts leaves the entries that were there unchanged and in
\* place, and the k resolutions it returns are the last k entries of the
\* history, in the order of the batch.
C20_Theorem ==
  /\ [] ((call.fn = "resolve_conflicts" /\ ~call.raised) =>
           /\ Len(call.ret) = Len(call.conflicts)
           /\ \A i \in 1..Len(call.ret) :
                call.ret[i].conflict_id = call.conflicts[i].id
           /\ Len(conflict_history) = Len(call.before) + Len(call.ret)
           /\ SubSeq(conflict_history, 1, Len(call.before)) = call.before
           /\ SubSeq(conflict_history, Len(call.before) + 1,
                     Len(conflict_history)) = call.ret)
  /\ [][ /\ Len(conflict_history') >= Len(conflict_history)
         /\ SubSeq(conflict_history', 1, Len(conflict_history))
              = conflict_history ]_vars

C20_Witness ==
  /\ call.fn = "resolve_conflicts"
  /\ ~call.raised
  /\ Len(call.ret) = 2
  /\ call.before # <<>>
  /\ Len(conflict_history) = Len(call.before) + 2

\* ---- direct calls of update_performance_metrics with sessions made by hand:
\* ---- every session the engine records has status completed (line 160)
Durations == {10, 20, 30}

RecordParticipants ==
  { <<"claude">>, <<"cursor_ai", "figma_ai">>,
    <<"claude", "figma_ai", "cursor_ai">> }

RecordedDurations == IF "durations" \in DOMAIN call THEN call.durations ELSE <<>>

RecordCall(duration, parts) ==
  LET session == [status |-> "completed", duration |-> duration,
                  participants |-> parts]
  IN /\ CallCount < MaxRecords
     /\ performance_metrics' =
          update_performance_metrics(performance_metrics, session)
     /\ call' = [fn |-> "update_performance_metrics", n |-> CallCount + 1,
                 session |-> session, before |-> performance_metrics,
                 durations |-> Append(RecordedDurations, duration)]
     /\ UNCHANGED << now, runs, active_collaborations, conflict_history,
                     uuid, returned, lastResponse >>

NextMetrics ==
  \E duration \in Durations : \E parts \in RecordParticipants :
    RecordCall(duration, parts)

SpecMetrics == Init /\ [][NextMetrics]_vars

\* the utilization counter of a worker, 0 when the mapping has no entry
UtilOf(m, a) ==
  IF a \in DOMAIN m.agent_utilization THEN m.agent_utilization[a] ELSE 0

RECURSIVE SumSeq(_)
SumSeq(s) == IF s = <<>> THEN 0 ELSE Head(s) + SumSeq(Tail(s))

\* C15: after n >= 1 completed sessions with durations d1..dn have been
\* recorded, the running average is (d1 + ... + dn) / n; after 10, 20, 30 it
\* is 20, having been 10 and then 15.
C15_Theorem ==
  (call.fn = "update_performance_metrics") =>
    LET ds  == call.durations
        avg == performance_metrics.average_completion_time
    IN /\ Len(ds) = performance_metrics.successful_collaborations
       /\ avg.den > 0
       /\ avg.num * Len(ds) = SumSeq(ds) * avg.den
       /\ (ds = <<10>>) => avg = [num |-> 10, den |-> 1]
       /\ (ds = <<10, 20>>) => avg = [num |-> 15, den |-> 1]
       /\ (ds = <<10, 20, 30>>) => avg = [num |-> 20, den |-> 1]

C15_Witness ==
  /\ call.fn = "update_performance_metrics"
  /\ call.durations = <<10, 20, 30>>
  /\ call.before.average_completion_time = [num |-> 15, den |-> 1]
  /\ performance_metrics.average_completion_time = [num |-> 20, den |-> 1]

\* ---- calculate_resolution_rate, as an exact fraction [num, den]
\* the rate counting every entry of the history as successful
calculate_resolution_rate_all(history) ==
  IF history = <<>>
  THEN [num |-> 100, den |-> 1]
  ELSE Norm(Len(history) * 100, Len(history))

calculate_resolution_rate(history) ==
  IF history = <<>>
  THEN [num |-> 100, den |-> 1]
  ELSE LET successful ==
             Cardinality({i \in 1..Len(history) : history[i].success})
       IN Norm(successful * 100, Len(history))

\* a history made by hand: quality resolutions with the given success flags
\* (the handlers themselves only ever answer success = True)
HandMadeHistory(flags) ==
  [i \in 1..Len(flags) |->
     [resolve_quality_conflict(HandMadeConflict(i, "quality"))
        EXCEPT !.success = flags[i]]]

SuccessFlags == UNION { [1..n -> BOOLEAN] : n \in 0..MaxHist }

RateCall(flags) ==
  /\ call.fn = "none"
  /\ conflict_history' = HandMadeHistory(flags)
  /\ call' = [fn |-> "calculate_resolution_rate",
              ret |-> calculate_resolution_rate(HandMadeHistory(flags))]
  /\ UNCHANGED << now, runs, active_collaborations, performance_metrics,
                  uuid, returned, lastResponse >>

NextRate == \E flags \in SuccessFlags : RateCall(flags)

SpecRate == Init /\ [][NextRate]_vars

\* C16: the resolution rate is 100 on an empty history and otherwise
\* 100 * (entries with success = true) / (entries); one failed and one
\* succeeded resolution give 50.
C16_Theorem ==
  (call.fn = "calculate_resolution_rate") =>
    LET h  == conflict_history
        ok == Cardinality({i \in 1..Len(h) : h[i].success = TRUE})
    IN /\ (h = <<>>) => call.ret = [num |-> 100, den |-> 1]
       /\ (h # <<>>) =>
            /\ call.ret.den > 0
            /\ call.ret.num * Len(h) = 100 * ok * call.ret.den
       /\ (Len(h) = 2 /\ ok = 1) => call.ret = [num |-> 50, den |-> 1]

C16_Witness ==
  /\ call.fn = "calculate_resolution_rate"
  /\ Len(conflict_history) = 2
  /\ ~conflict_history[1].success
  /\ conflict_history[2].success
  /\ call.ret = [num |-> 50, den |-> 1]

\* ---- match_capabilities and prepare_agent
\* A string is the sequence of its characters. A Hangul syllable is written
\* as one character by its romanisation ("jeon" is one character), a Latin
\* letter as itself, so that str.lower and the substring test work on
\* characters as they do in the code.
Lower(c) ==
  CASE c = "U" -> "u"
    [] c = "I" -> "i"
    [] OTHER   -> c

LowerStr(s) == [i \in 1..Len(s) |-> Lower(s[i])]

\* sub in s
Contains(sub, s) ==
  \E k \in 0..(Len(s) - Len(sub)) : SubSeq(s, k + 1, k + Len(sub)) = sub

\* the test without lower()
SkillInCap_exact(skill, cap) == Contains(skill, cap)

\* skill.lower() in cap.lower()
SkillInCap(skill, cap) == Contains(LowerStr(skill), LowerStr(cap))

\* requirements.get("skills", []): hasSkills is FALSE when the key is absent
RequiredSkills(requirements) ==
  IF requirements.hasSkills THEN requirements.skills ELSE <<>>

match_capabilities(agent_capabilities, requirements) ==
  LET required_skills == RequiredSkills(requirements)
      matched_skills ==
        Cardinality({i \in 1..Len(required_skills) :
                       \E c \in 1..Len(agent_capabilities) :
                         SkillInCap(required_skills[i], agent_capabilities[c])})
  IN IF required_skills = <<>>
     THEN [num |-> 1, den |-> 1]
     ELSE Norm(matched_skills, Len(required_skills))

\* the capabilities lists of the three workers
ClaudeCapabilities ==
  << <<"jeon", "ryak", " ", "su", "rip">>,
     <<"peu", "ro", "jek", "teu", " ", "gwan", "ri">>,
     <<"mun", "seo", "hwa">>,
     <<"eui", "sa", "gyeol", "jeong", " ", "ji", "won">>,
     <<"pum", "jil", " ", "gwan", "ri">>,
     <<"hyeop", "eop", " ", "jo", "yul">> >>

CursorCapabilities ==
  << <<"ja", "dong", " ", "ko", "ding">>,
     <<"ko", "deu", " ", "ri", "paek", "to", "ring">>,
     <<"beo", "geu", " ", "su", "jeong">>,
     <<"seong", "neung", " ", "choe", "jeok", "hwa">>,
     <<"te", "seu", "teu", " ", "ko", "deu", " ", "saeng", "seong">>,
     <<"ko", "deu", " ", "ri", "byu">> >>

FigmaCapabilities ==
  << <<"U", "I", " ", "keom", "po", "neon", "teu", " ", "seol", "gye">>,
     <<"peu", "ro", "to", "ta", "ip", " ", "saeng", "seong">>,
     <<"di", "ja", "in", " ", "si", "seu", "tem", " ", "gu", "chuk">>,
     <<"sa", "yong", "seong", " ", "bun", "seok">>,
     <<"jeop", "geun", "seong", " ", "geom", "jeung">>,
     <<"ban", "eung", "hyeong", " ", "di", "ja", "in">> >>

\* self.agents[agent_name].capabilities
AgentCapabilities ==
  [ claude |-> ClaudeCapabilities, cursor_ai |-> CursorCapabilities,
    figma_ai |-> FigmaCapabilities ]

RoleOf ==
  [ claude |-> "strategic_coordinator", cursor_ai |-> "code_developer",
    figma_ai |-> "ui_designer" ]

\* prepare_agent (the free text of estimated_contribution is left out)
prepare_agent(agent_name, requirements) ==
  [ role |-> RoleOf[agent_name], ready |-> TRUE,
    capabilities_matched |->
      match_capabilities(AgentCapabilities[agent_name], requirements) ]

\* the inputs: skills over a few characters, the lists of test_match_capabilities
SkillChars == {"U", "i", "jeon"}

SkillStrings == UNION { [1..n -> SkillChars] : n \in 0..MaxSkillLen }

TestSkills == << <<"jeon", "ryak">>, <<"mun", "seo">> >>

TestCapabilities ==
  << <<"jeon", "ryak", " ", "su", "rip">>, <<"mun", "seo", "hwa">>,
     <<"bun", "seok">> >>

SkillLists ==
  UNION { [1..n -> SkillStrings] : n \in 0..MaxSkills } \cup {TestSkills}

RequirementsIn ==
  {[hasSkills |-> TRUE, skills |-> l] : l \in SkillLists}
    \cup {[hasSkills |-> FALSE, skills |-> <<>>]}

CapabilityLists == { <<>>, TestCapabilities, FigmaCapabilities }

MatchCall(caps, requirements) ==
  /\ call.fn = "none"
  /\ call' = [fn |-> "match_capabilities", agent_capabilities |-> caps,
              requirements |-> requirements,
              ret |-> match_capabilities(caps, requirements)]
  /\ UNCHANGED << now, runs, active_collaborations, conflict_history,
                  performance_metrics, uuid, returned, lastResponse >>

PrepareCall(agent_name, requirements) ==
  /\ call.fn = "none"
  /\ call' = [fn |-> "prepare_agent", agent_name |-> agent_name,
              requirements |-> requirements,
              ret |-> prepare_agent(agent_name, requirements)]
  /\ UNCHANGED << now, runs, active_collaborations, conflict_history,
                  performance_metrics, uuid, returned, lastResponse >>

NextMatch ==
  \/ \E caps \in CapabilityLists : \E requirements \in RequirementsIn :
       MatchCall(caps, requirements)
  \/ \E agent_name \in Agents : \E requirements \in RequirementsIn :
       PrepareCall(agent_name, requirements)

SpecMatch == Init /\ [][NextMatch]_vars

\* skill occurs in cap at some offset, letter case aside
OccursIn(skill, cap) ==
  \E k \in 0..(Len(cap) - Len(skill)) :
    \A i \in 1..Len(skill) : Lower(skill[i]) = Lower(cap[k + i])

\* the score the claim states, for the capabilities caps
StatedScore(caps, requirements, score) ==
  LET skills == IF requirements.hasSkills THEN requirements.skills ELSE <<>>
      hits   == {i \in 1..Len(skills) :
                   \E c \in 1..Len(caps) : OccursIn(skills[i], caps[c])}
  IN /\ score.den > 0
     /\ 0 <= score.num /\ score.num <= score.den
     /\ (skills = <<>>) => score = [num |-> 1, den |-> 1]
     /\ (skills # <<>>) =>
          score.num * Len(skills) = Cardinality(hits) * score.den

\* C17: the capability match score is 1 when the request lists no required
\* skills (empty or absent), and otherwise the number of required skills that
\* are a case-insensitive substring of at least one capability of the worker,
\* divided by the number of required skills; it lies in [0, 1]. The
\* preparation record of a prepared participant has ready = true and such a
\* score.
C17_Theorem ==
  /\ (call.fn = "match_capabilities") =>
       StatedScore(call.agent_capabilities, call.requirements, call.ret)
  /\ (call.fn = "prepare_agent") =>
       /\ call.ret.ready = TRUE
       /\ StatedScore(AgentCapabilities[call.agent_name], call.requirements,
                      call.ret.capabilities_matched)

C17_Witness ==
  /\ call.fn = "prepare_agent"
  /\ call.agent_name = "figma_ai"
  /\ call.requirements.hasSkills
  /\ call.requirements.skills = << <<"U", "i">>, <<"jeon">> >>
  /\ call.ret.ready
  /\ call.ret.capabilities_matched = [num |-> 1, den |-> 2]

\* ---- direct calls of detect_all_conflicts on mappings made by hand
\* the key orders of a mapping of distinct workers
KeyOrders ==
  {o \in UNION { [1..n -> Agents] : n \in 0..Cardinality(Agents) } :
     \A i \in 1..Len(o) : \A j \in 1..Len(o) : i # j => o[i] # o[j]}

DetectAllCall(order, vals) ==
  LET results == [i \in 1..Len(order) |->
                    [key |-> order[i], val |-> vals[order[i]]]]
      ret == detect_all_conflicts(results, uuid)
  IN /\ call.fn = "none"
     /\ call' = [fn |-> "detect_all_conflicts", results |-> results,
                 ret |-> ret]
     /\ uuid' = uuid + Len(ret)
     /\ UNCHANGED << now, runs, active_collaborations, conflict_history,
                     performance_metrics, returned, lastResponse >>

NextDetectAll ==
  \E order \in KeyOrders :
    \E rc \in DetectResults("claude"), rf \in DetectResults("figma_ai"),
       ru \in DetectResults("cursor_ai") :
      DetectAllCall(order, [claude |-> rc, figma_ai |-> rf, cursor_ai |-> ru])

SpecDetectAll == Init /\ [][NextDetectAll]_vars

\* the pairwise rule as stated: both scores present and more than 20 apart
FarApart(ra, rb) ==
  /\ ra.hasScore /\ rb.hasScore
  /\ \/ ra.score - rb.score > 20
     \/ rb.score - ra.score > 20

\* C18: detection over a whole result mapping applies the pairwise rule to
\* every unordered pair of distinct workers exactly once: there are as many
\* conflicts as pairs that meet the rule, one for each such pair, none names
\* the same pair twice and none pairs a worker with itself.
C18_Theorem ==
  (call.fn = "detect_all_conflicts") =>
    LET res == call.results
        ret == call.ret
        Meet == {p \in (1..Len(res)) \X (1..Len(res)) :
                   p[1] < p[2] /\ FarApart(res[p[1]].val, res[p[2]].val)}
    IN /\ Len(ret) = Cardinality(Meet)
       /\ \A p \in Meet :
            \E k \in 1..Len(ret) :
              Range(ret[k].agents) = {res[p[1]].key, res[p[2]].key}
       /\ \A k \in 1..Len(ret) :
            /\ Len(ret[k].agents) = 2
            /\ ret[k].agents[1] # ret[k].agents[2]
            /\ Range(ret[k].agents) \subseteq Range(Keys(res))
            /\ ret[k].type = "quality"
       /\ \A k \in 1..Len(ret) : \A l \in 1..Len(ret) :
            k # l => /\ Range(ret[k].agents) # Range(ret[l].agents)
                     /\ ret[k].id # ret[l].id

C18_Witness ==
  /\ call.fn = "detect_all_conflicts"
  /\ Len(call.results) = 3
  /\ \A i \in 1..3 : call.results[i].val.hasScore
  /\ Len(call.ret) = 2
  /\ call.ret[1].agents[1] = call.results[1].key
  /\ call.ret[2].agents = << call.results[2].key, call.results[3].key >>

\* C21: in sequential, parallel and interactive mode, when every worker
\* invocation returns or raises, a started session eventually has status
\* completed with its end timestamp and duration recorded, and the metrics are
\* updated for it exactly once, with the status already completed.
PlainModes == {"sequential", "parallel", "interactive"}

C21_Theorem ==
  /\ (Len(runs) = 1 /\ runs[1].mode \in PlainModes)
       ~> (/\ Len(runs) = 1
           /\ runs[1].pc = "done"
           /\ runs[1].status = "completed"
           /\ performance_metrics.total_collaborations = 1)
  /\ [] (\A s \in 1..Len(runs) :
           LET r == runs[s] IN
           r.mode \in PlainModes =>
             /\ (r.pc # "done") =>
                  /\ r.status = "active"
                  /\ performance_metrics.total_collaborations = 0
             /\ (r.pc = "done") =>
                  /\ r.status = "completed"
                  /\ r.completed_at >= r.started_at
                  /\ r.duration = r.completed_at - r.started_at
                  /\ r.id \in DOMAIN active_collaborations
                  /\ active_collaborations[r.id] = SessionOf(r)
                  /\ performance_metrics.total_collaborations = 1
                  /\ performance_metrics.successful_collaborations = 1)
  /\ [][ (performance_metrics'.total_collaborations
            # performance_metrics.total_collaborations) =>
           \E s \in 1..Len(runs) :
             /\ runs[s].pc # "done"
             /\ runs'[s].pc = "done"
             /\ runs'[s].status = "completed"
             /\ performance_metrics'.total_collaborations
                  = performance_metrics.total_collaborations + 1 ]_vars

C21_Witness ==
  /\ Len(runs) = 1
  /\ runs[1].mode = "interactive"
  /\ runs[1].pc = "done"
  /\ runs[1].raised # <<>>
  /\ runs[1].duration = 1
  /\ performance_metrics.total_collaborations = 1

\* C22 (as stated): an autonomous session terminates whatever the workers
\* answer, also when every result of a worker flags adaptation: eventually no
\* step is pending, and then every step of the final plan, the appended ones
\* included, has been executed exactly once.
C22_Original ==
  (Len(runs) = 1 /\ runs[1].mode = "autonomous")
    ~> (/\ Len(runs) = 1
        /\ runs[1].pc = "done"
        /\ Keys(runs[1].results) =
             [i \in 1..Len(runs[1].plan) |-> runs[1].plan[i].id])

\* ---- the results of a finished session, by unit of execution
\* the worker that produced an entry of a result mapping (the mappings of
\* autonomous mode are keyed by step id)
WorkerOf(e) == IF "agent" \in DOMAIN e.val THEN e.val.agent ELSE e.key

\* the mappings whose entries were produced together: the rounds of an
\* interactive session, the one mapping of the other modes
UnitsOf(r) ==
  IF r.mode = "interactive"
  THEN {r.results[n].val : n \in 1..Len(r.results)}
  ELSE {r.results}

ScoresApart(a, b) ==
  /\ HasScore(a) /\ HasScore(b)
  /\ \/ a.score - b.score > ConflictThreshold
     \/ b.score - a.score > ConflictThreshold

Detected(r, unit) ==
  \A i \in 1..Len(unit) : \A j \in 1..Len(unit) :
    (/\ i < j
     /\ WorkerOf(unit[i]) # WorkerOf(unit[j])
     /\ ScoresApart(unit[i].val, unit[j].val))
      => \E k \in 1..Len(r.conflicts) :
           /\ r.conflicts[k].type = "quality"
           /\ Range(r.conflicts[k].agents)
                = {WorkerOf(unit[i]), WorkerOf(unit[j])}

\* C23 (as stated): in every mode, autonomous included, when a session
\* completes, every two results of distinct workers of the session (of one
\* round, in interactive mode) whose quality scores are more than 20 apart
\* have a quality conflict naming the two workers in the session's conflicts.
C23_Original ==
  \A s \in 1..Len(runs) :
    (runs[s].pc = "done" /\ runs[s].mode \in Modes) =>
      \A unit \in UnitsOf(runs[s]) : Detected(runs[s], unit)

\* some result of worker a in the session carries the resolution of conflict c
Carries(r, a, c) ==
  \E unit \in UnitsOf(r) : \E i \in 1..Len(unit) :
    /\ WorkerOf(unit[i]) = a
    /\ "hasRes" \in DOMAIN unit[i].val
    /\ unit[i].val.hasRes
    /\ \E k \in 1..Len(unit[i].val.res) :
         unit[i].val.res[k].conflict_id = c.id

\* C24 (as stated): in any mode, at session completion, for each conflict of
\* the session's conflict list the session result of each of its two affected
\* workers carries that conflict's resolution.
C24_Original ==
  \A s \in 1..Len(runs) :
    (runs[s].pc = "done" /\ runs[s].mode \in Modes) =>
      \A k \in 1..Len(runs[s].conflicts) :
        \A a \in Range(runs[s].conflicts[k].agents) :
          Carries(runs[s], a, runs[s].conflicts[k])

\* one timeline entry per invocation, in order, naming the worker; the summary
\* is the error text exactly for the invocations that failed
OneEntryEach(r) ==
  /\ Len(r.timeline) = Len(r.invoked)
  /\ \A i \in 1..Len(r.timeline) :
       /\ r.timeline[i].agent = r.invoked[i]
       /\ r.timeline[i].action = "task_completed"
       /\ IF r.timeline[i].result_summary.error
          THEN /\ r.invoked[i] \in Range(r.raised)
               /\ r.timeline[i].result_summary.text = "worker failed"
          ELSE /\ r.invoked[i] \notin Range(r.raised)
               /\ r.timeline[i].result_summary.agent = r.invoked[i]

\* C25 (as stated): in every mode, when a session completes, the timeline has
\* as many entries as worker invocations were made for the session, each
\* entry names the invoked worker, and its summary is the error message when
\* the worker failed and "<worker>: <result-kind> completed" otherwise.
C25_Original ==
  \A s \in 1..Len(runs) :
    (runs[s].pc = "done" /\ runs[s].mode \in Modes) => OneEntryEach(runs[s])

\* the pairs of entries of a result mapping whose scores are more than 20 apart
ApartPairs(results) ==
  {p \in (1..Len(results)) \X (1..Len(results)) :
     p[1] < p[2] /\ ScoresApart(results[p[1]].val, results[p[2]].val)}

\* C26: parallel mode is fan-out/fan-in: every participant is dispatched
\* before any result is collected; as long as a result is outstanding nothing
\* has been detected, resolved or merged; detection runs in the step that
\* collects the last result, on the results of all participants, and the
\* batch is returned in that same step.
C26_Theorem ==
  /\ [] (\A s \in 1..Len(runs) :
           LET r == runs[s] IN
           r.mode = "parallel" =>
             /\ (r.pc \in {"waiting", "done"}) => r.invoked = r.participants
             /\ (r.results # <<>>) => r.invoked = r.participants
             /\ (r.pc = "waiting") =>
                  /\ r.inflight # {}
                  /\ r.detected = <<>> /\ r.conflicts = <<>>
                  /\ \A i \in 1..Len(r.results) : ~r.results[i].val.hasRes
                  /\ Keys(r.results) = SubSeq(r.participants, 1, Len(r.results))
                  /\ Len(r.results) < Len(r.participants)
             /\ (r.pc = "done") =>
                  /\ Keys(r.results) = r.participants
                  /\ r.conflicts = r.detected
                  /\ Len(r.detected) = Cardinality(ApartPairs(r.results)))
  /\ [][ \A s \in 1..Len(runs) :
           (/\ s <= Len(runs')
            /\ runs[s].mode = "parallel"
            /\ \/ runs'[s].detected # runs[s].detected
               \/ runs[s].pc = "waiting" /\ runs'[s].pc # "waiting")
             => /\ runs'[s].pc = "done"
                /\ runs'[s].inflight = {}
                /\ Keys(runs'[s].results) = runs'[s].participants ]_vars

C26_Witness ==
  \E s \in 1..Len(runs) :
    /\ runs[s].mode = "parallel"
    /\ runs[s].pc = "waiting"
    /\ Len(runs[s].participants) = 3
    /\ Len(runs[s].results) = 2
    /\ ScoresApart(runs[s].results[1].val, runs[s].results[2].val)
    /\ runs[s].inflight = {runs[s].participants[3]}
    /\ runs[s].detected = <<>>

\* C27 (as stated): in interactive mode the participants of a round are
\* dispatched together: when a round has been started and no participant of
\* it has completed yet, every participant of the session is in flight.
C27_Original ==
  \A s \in 1..Len(runs) :
    (/\ runs[s].mode = "interactive"
     /\ runs[s].pc = "waiting"
     /\ runs[s].round_results = <<>>)
      => runs[s].inflight = Range(runs[s].participants)

\* the ids of the steps of a plan
StepIds(plan) == {plan[i].id : i \in 1..Len(plan)}

C29_Theorem ==
  \A s \in 1..Len(runs) :
    LET r == runs[s] IN
    (r.mode = "sequential" /\ r.pc \in {"waiting", "done"}) =>
      /\ r.order = determine_execution_order(r.participants)
      /\ Len(r.timeline) = Len(r.results)
      /\ Len(r.timeline) <= Len(r.order)
      /\ \A i \in 1..Len(r.timeline) :
           /\ r.timeline[i].agent = r.order[i]
           /\ r.results[i].key = r.order[i]
           /\ r.results[i].val.agent = r.order[i]
      /\ r.invoked = SubSeq(r.order, 1, Len(r.invoked))
      /\ (r.pc = "waiting") =>
           /\ Len(r.timeline) = Len(r.invoked) - 1
           /\ r.inflight = {r.order[Len(r.invoked)]}
      /\ (r.pc = "done") =>
           /\ Len(r.timeline) = Len(r.order)
           /\ r.invoked = r.order

C29_Witness ==
  \E s \in 1..Len(runs) :
    /\ runs[s].mode = "sequential"
    /\ runs[s].pc = "waiting"
    /\ runs[s].request = <<"cursor_ai", "ghost", "claude">>
    /\ runs[s].inflight = {"cursor_ai"}
    /\ Len(runs[s].timeline) = 1
    /\ runs[s].timeline[1].agent = "claude"
    /\ Keys(runs[s].results) = <<"claude">>

\* C30: in sequential mode, when a worker is invoked, the previous results of
\* its context are exactly the results of the workers before it in the
\* execution order (none for the first), and hold no result of the worker
\* itself or of a later one.
C30_Theorem ==
  \A s \in 1..Len(runs) :
    LET r == runs[s] IN
    (r.mode = "sequential" /\ r.pc = "waiting") =>
      /\ r.inflight = {r.order[r.idx]}
      /\ Keys(r.previous_results) = SubSeq(r.order, 1, r.idx - 1)
      /\ \A i \in 1..Len(r.previous_results) :
           /\ r.previous_results[i].val.agent = r.order[i]
           /\ r.previous_results[i] = r.results[i]
      /\ \A j \in r.idx..Len(r.order) : ~HasKey(r.previous_results, r.order[j])
      /\ (r.idx = 1) => r.previous_results = <<>>

C30_Witness ==
  \E s \in 1..Len(runs) :
    /\ runs[s].mode = "sequential"
    /\ runs[s].pc = "waiting"
    /\ runs[s].idx = 3
    /\ runs[s].inflight = {"cursor_ai"}
    /\ Keys(runs[s].previous_results) = <<"claude", "figma_ai">>
    /\ runs[s].previous_results[2].val.hasRes

\* a round entry holding one result of every participant, in their order,
\* each followed by its feedback record
CompleteRound(r, rr) ==
  /\ Len(rr) = 2 * Len(r.participants)
  /\ \A k \in 1..Len(r.participants) :
       /\ rr[2 * k - 1].key = r.participants[k]
       /\ rr[2 * k - 1].val.agent = r.participants[k]
       /\ rr[2 * k].key = FeedbackKey(r.participants[k])

\* C31: an interactive session performs exactly 3 rounds; in each round every
\* participant is invoked exactly once; the invocation in round n receives
\* the complete results of rounds 1..n-1 and the results of the peers that
\* already completed in round n; at completion the results hold exactly the
\* entries round_1, round_2, round_3.
C31_Theorem ==
  \A s \in 1..Len(runs) :
    LET r == runs[s]
        n == Len(r.participants)
    IN (r.mode = "interactive" /\ r.pc \in {"waiting", "done"}) =>
         /\ \A i \in 1..Len(r.invoked) :
              r.invoked[i] = r.participants[((i - 1) % n) + 1]
         /\ \A m \in 1..Len(r.results) : CompleteRound(r, r.results[m].val)
         /\ (r.pc = "waiting") =>
              /\ r.round \in 1..interaction_rounds
              /\ r.idx \in 1..n
              /\ r.inflight = {r.participants[r.idx]}
              /\ Len(r.invoked) = (r.round - 1) * n + r.idx
              /\ r.previous_rounds = r.results
              /\ Keys(r.previous_rounds) = SubSeq(RoundKey, 1, r.round - 1)
              /\ r.current_round = r.round_results
              /\ \A k \in 1..(r.idx - 1) :
                   /\ HasKey(r.current_round, r.participants[k])
                   /\ Get(r.current_round, r.participants[k]).agent
                        = r.participants[k]
              /\ \A k \in r.idx..n :
                   ~HasKey(r.current_round, r.participants[k])
         /\ (r.pc = "done") =>
              /\ Keys(r.results) = RoundKey
              /\ Len(r.results) = 3
              /\ Len(r.invoked) = 3 * n

C31_Witness ==
  \E s \in 1..Len(runs) :
    /\ runs[s].mode = "interactive"
    /\ runs[s].pc = "waiting"
    /\ runs[s].participants = <<"claude", "figma_ai", "cursor_ai">>
    /\ runs[s].round = 2
    /\ runs[s].inflight = {"figma_ai"}
    /\ Keys(runs[s].previous_rounds) = <<"round_1">>
    /\ Keys(runs[s].current_round) = <<"claude", "claude_feedback">>

\* the round mappings of an interactive session: the finished rounds and the
\* round in progress
RoundsOf(r) ==
  {r.results[m].val : m \in 1..Len(r.results)} \cup {r.round_results}

\* the feedback record of the participant at position k of the round rr, as
\* stated: about the k-1 participants before it, by their status
StatedFeedback(r, rr, k) ==
  LET fb     == rr[2 * k].val
      before == {r.participants[j] : j \in 1..(k - 1)}
      ok     == {a \in before : Get(rr, a).status = "success"}
  IN /\ rr[2 * k].key = FeedbackKey(r.participants[k])
     /\ fb.from_agent = r.participants[k]
     /\ Range(fb.appreciations) = ok
     /\ Len(fb.appreciations) = Cardinality(ok)
     /\ Range(fb.concerns) = before \ ok
     /\ Len(fb.concerns) = Cardinality(before \ ok)
     /\ r.participants[k] \notin Range(fb.appreciations) \cup Range(fb.concerns)
     /\ (Range(fb.appreciations) \cup Range(fb.concerns)) \cap FeedbackKeys = {}
     /\ Len(fb.appreciations) + Len(fb.concerns) = k - 1

\* C32: in each interactive round one feedback record is produced per
\* participant, derived only from the peers' statuses: one appreciation for
\* every other participant whose result of the round is present with status
\* success, one concern for every other one whose present result is not a
\* success, nothing about the participant itself or about a feedback record;
\* the participant at position k gets exactly k-1 items.
C32_Theorem ==
  \A s \in 1..Len(runs) :
    LET r == runs[s] IN
    (r.mode = "interactive" /\ r.pc \in {"waiting", "done"}) =>
      \A rr \in RoundsOf(r) :
        /\ Len(rr) % 2 = 0
        /\ Len(rr) <= 2 * Len(r.participants)
        /\ \A k \in 1..(Len(rr) \div 2) :
             /\ rr[2 * k - 1].key = r.participants[k]
             /\ StatedFeedback(r, rr, k)

C32_Witness ==
  \E s \in 1..Len(runs) :
    /\ runs[s].mode = "interactive"
    /\ runs[s].pc = "done"
    /\ runs[s].participants = <<"claude", "figma_ai", "cursor_ai">>
    /\ Get(runs[s].results[2].val, "cursor_ai_feedback").appreciations
         = <<"claude">>
    /\ Get(runs[s].results[2].val, "cursor_ai_feedback").concerns
         = <<"figma_ai">>
    /\ Get(runs[s].results[2].val, "claude_feedback").appreciations = <<>>

\* C33 (as stated): in autonomous mode every worker that is invoked is one of
\* the request's participants, and no result of a worker outside the
\* participants appears in the session.
C33_Original ==
  \A s \in 1..Len(runs) :
    LET r == runs[s] IN
    (r.mode = "autonomous") =>
      /\ Range(r.invoked) \subseteq Range(r.request)
      /\ r.inflight \subseteq Range(r.request)
      /\ \A i \in 1..Len(r.results) :
           r.results[i].val.agent \in Range(r.request)

\* C34 (as stated): in every reachable state the number of stored sessions
\* equals the total session count of the metrics, also for requests that
\* carry the same id.
C34_Original ==
  Cardinality(DOMAIN active_collaborations)
    = performance_metrics.total_collaborations

\* the sessions that have completed
DoneRuns == {s \in 1..Len(runs) : runs[s].pc = "done"}

\* C35: under every interleaving of several sessions on one core, the total
\* and the successful session counts equal the number of sessions completed
\* so far (N once all N have completed), the utilization counter of each
\* worker equals the number of completed sessions it participated in, and
\* every conflict of a session is between two results of that session whose
\* scores are more than 20 apart.
C35_Theorem ==
  /\ performance_metrics.total_collaborations = Cardinality(DoneRuns)
  /\ performance_metrics.successful_collaborations = Cardinality(DoneRuns)
  /\ \A a \in Agents :
       UtilOf(performance_metrics, a)
         = Cardinality({s \in DoneRuns : a \in Range(runs[s].participants)})
  /\ \A s \in 1..Len(runs) :
       \A k \in 1..Len(runs[s].conflicts) :
         LET c == runs[s].conflicts[k] IN
         /\ HasKey(runs[s].results, c.agents[1])
         /\ HasKey(runs[s].results, c.agents[2])
         /\ ScoresApart(Get(runs[s].results, c.agents[1]),
                        Get(runs[s].results, c.agents[2]))

C35_Witness ==
  /\ Len(runs) = MaxRequests
  /\ DoneRuns = 1..MaxRequests
  /\ performance_metrics.total_collaborations = MaxRequests
  /\ UtilOf(performance_metrics, "figma_ai") = MaxRequests
  /\ runs[1].conflicts = <<>>
  /\ runs[2].conflicts # <<>>
  /\ runs[1].completed_at > runs[2].started_at
  /\ runs[2].completed_at > runs[1].started_at

\* C36: in every reachable state, also while several sessions resolve
\* conflicts concurrently, the conflicts-resolved counter of the metrics
\* equals the length of the conflict history.
C36_Theorem ==
  performance_metrics.conflicts_resolved = Len(conflict_history)

C36_Witness ==
  /\ Len(conflict_history) = 2
  /\ performance_metrics.conflicts_resolved = 2
  /\ \E s \in 1..Len(runs) : \E t \in 1..Len(runs) :
       /\ s < t
       /\ runs[s].pc = "done" /\ runs[t].pc = "done"
       /\ runs[s].mode = "sequential" /\ runs[t].mode = "parallel"
       /\ conflict_history[1].conflict_id = runs[t].conflicts[1].id
       /\ conflict_history[2].conflict_id = runs[s].conflicts[1].id

\* C37: in every reachable state the successful session count equals the
\* total session count: every session that is recorded is recorded as
\* completed and counted as successful, also when every worker invocation of
\* the session failed, and the running average is never computed with a
\* success count of 0.
C37_Theorem ==
  /\ performance_metrics.successful_collaborations
       = performance_metrics.total_collaborations
  /\ performance_metrics.total_collaborations = Cardinality(DoneRuns)
  /\ performance_metrics.average_completion_time.den > 0
  /\ \A id \in DOMAIN active_collaborations :
       active_collaborations[id].status = "completed"
  /\ \A s \in 1..Len(runs) :
       /\ (runs[s].pc = "done") =>
            /\ runs[s].status = "completed"
            /\ runs[s].id \in DOMAIN active_collaborations
            /\ performance_metrics.successful_collaborations >= 1
       /\ (runs[s].pc # "done") =>
            runs[s].id \notin DOMAIN active_collaborations

C37_Witness ==
  \E s \in 1..Len(runs) :
    /\ runs[s].pc = "done"
    /\ runs[s].mode = "parallel"
    /\ runs[s].invoked = <<"cursor_ai", "figma_ai">>
    /\ runs[s].raised = <<"figma_ai", "cursor_ai">>
    /\ runs[s].status = "completed"
    /\ performance_metrics.successful_collaborations = 1
    /\ performance_metrics.total_collaborations = 1

\* the workers affected by some resolution of a list
AffectedBy(resolutions) ==
  UNION {Range(resolutions[k].affected_agents) : k \in 1..Len(resolutions)}

\* C38 (as stated): applying conflict resolutions changes only the results of
\* the workers affected by a resolved conflict, and only by adding the
\* resolution metadata: a result carries resolution metadata only if its
\* worker is affected by one of the resolutions it carries, and the result of
\* a worker that is in no conflict of the session carries none; the other
\* fields of a result stay as the worker returned them.
C38_Original ==
  \A s \in 1..Len(runs) :
    LET r == runs[s] IN
    (r.mode \in {"sequential", "parallel"} /\ r.pc = "done") =>
      \A i \in 1..Len(r.results) :
        LET e == r.results[i] IN
        /\ e.val.hasRes => e.key \in AffectedBy(e.val.res)
        /\ (\A k \in 1..Len(r.conflicts) :
              e.key \notin Range(r.conflicts[k].agents)) => ~e.val.hasRes
        /\ e.val.agent = e.key
        /\ (r.mode = "parallel") =>
             e.val = [Get(r.task_done, e.key) EXCEPT !.hasRes = e.val.hasRes,
                                                     !.res = e.val.res]

\* the mapping on which the conflicts added by the last step of run r were
\* detected: the round just stored in interactive mode, the results otherwise
UnitDetected(r) ==
  IF r.mode = "interactive" THEN r.results[Len(r.results)].val ELSE r.results

\* C39: a worker whose invocation failed never takes part in a conflict: in
\* every mode, whenever conflicts are added to a session, each worker they
\* list has, in the unit of execution on which they were detected, a result
\* with status success.
C39_Theorem ==
  [][ \A s \in 1..Len(runs) :
        Len(runs'[s].conflicts) > Len(runs[s].conflicts) =>
          \A k \in (Len(runs[s].conflicts) + 1)..Len(runs'[s].conflicts) :
            \A a \in Range(runs'[s].conflicts[k].agents) :
              /\ HasKey(UnitDetected(runs'[s]), a)
              /\ Get(UnitDetected(runs'[s]), a).status = "success"
              /\ Get(UnitDetected(runs'[s]), a).agent = a ]_vars

C39_Witness ==
  \E s \in 1..Len(runs) :
    /\ runs[s].mode = "interactive"
    /\ runs[s].pc = "done"
    /\ runs[s].raised = <<"cursor_ai">>
    /\ Get(runs[s].results[1].val, "cursor_ai").status = "error"
    /\ Len(runs[s].conflicts) = 2
    /\ \A k \in 1..2 :
         Range(runs[s].conflicts[k].agents) = {"claude", "cursor_ai"}

\* C40: in every reachable state every resolution in the conflict history
\* has success = true, so the reported resolution rate is 100 after any
\* sequence of sessions.
C40_Theorem ==
  /\ \A i \in 1..Len(conflict_history) : conflict_history[i].success = TRUE
  /\ calculate_resolution_rate(conflict_history) = [num |-> 100, den |-> 1]

C40_Witness ==
  /\ Len(conflict_history) = 2
  /\ conflict_history[1].conflict_type = "quality"
  /\ conflict_history[1].success /\ conflict_history[2].success
  /\ conflict_history[1].conflict_id # conflict_history[2].conflict_id
  /\ calculate_resolution_rate(conflict_history) = [num |-> 100, den |-> 1]

====
